---- MODULE Spec2Model ----
(***************************************************************************)
(* Stack deployment orchestration of the CDK toolkit: deployStack,         *)
(* destroyStack and the skip-deploy decision (canSkipDeploy, compareTags,  *)
(* changeIsLambdaCode), modelled as a state machine over the remote calls  *)
(* issued against the CloudFormation control plane.                        *)
(***************************************************************************)
EXTENDS Integers, Sequences, FiniteSets, TLC

VARIABLES
    op,               \* "deploy" | "destroy" | "skip": the operation being run
    pc,               \* position of the running operation
    options,          \* DeployStackOptions / DestroyStackOptions of the call
    cloudFormationStack, \* the CloudFormationStack snapshot held by the operation
    lookedUp,         \* the snapshot as CloudFormationStack.lookup returned it
    cfnStackTemplate, \* the remote template fetched by cloudFormationStack.template()
    stackParams,      \* the ParameterValues of the call and their hasChanges
    skipDeployResult, \* the SkipDeployResult returned by canSkipDeploy
    changeSet,        \* the change-set of this attempt: type and description
    bodyParameter,    \* what makeBodyParameter returned
    executionId,      \* the uuid of this attempt (deployStack, line 346)
    attempts,         \* deployStack attempts running side by side, by attempt
    stage,            \* a codepipeline Stage: its _actions and its pipeline
    assetIndex,       \* fast path: position in skipDeployResult.modifiedAssetPaths
    calls,            \* remote calls issued so far, in order
    monitor,          \* activity monitor: number of start() and stop() calls
    completion,       \* how a try block ended, held while its finally block runs
    digest,           \* contentHash: the digest it gives to each serialized template
    result            \* outcome of the operation: running / returned / thrown

vars == << op, digest, pc, options, cloudFormationStack, lookedUp, cfnStackTemplate,
           stackParams, skipDeployResult, changeSet, bodyParameter, executionId, attempts,
           stage, assetIndex, calls, monitor, completion, result >>

-----------------------------------------------------------------------------
(* Bounds of the explored input space.                                      *)

MaxTags == 2          \* longest tag list explored by the skip-decision runs
MaxResources == 2     \* most resources in a template

(* Optional values of the TypeScript source that may be undefined are       *)
(* modelled as the strings "undefined" / "true" / "false".                  *)
Optional == {"undefined", "true", "false"}

Truthy(x) == x = "true"          \* !!x
OrFalse(x) == x = "true"         \* x ?? false
ExecuteAlways(x) == TRUE         \* the execute option ignored
OrTrue(x) == x # "false"         \* x === undefined ? true : x

-----------------------------------------------------------------------------
(* Stack statuses (util/cloudformation/stack-status).                       *)

StatusNames == { "NOT_FOUND", "CREATE_COMPLETE", "UPDATE_COMPLETE",
                 "REVIEW_IN_PROGRESS", "ROLLBACK_COMPLETE",
                 "UPDATE_ROLLBACK_FAILED", "DELETE_COMPLETE", "DELETE_FAILED" }

isCreationFailure(name) == name \in {"ROLLBACK_COMPLETE", "ROLLBACK_FAILED"}

isFailure(name) == name \in {"CREATE_FAILED", "ROLLBACK_FAILED", "DELETE_FAILED",
                             "UPDATE_ROLLBACK_FAILED"}

-----------------------------------------------------------------------------
(* Tags: lists of {Key, Value}.                                             *)

TagKeys == {"env", "team"}
TagValues == {"prod", "dev"}
Tag == [Key : TagKeys, Value : TagValues]

SeqsUpTo(S, n) == UNION { [1..k -> S] : k \in 0..n }

UniqueKeys(tags) == \A i, j \in 1..Len(tags) : tags[i].Key = tags[j].Key => i = j

(* b.find(tag => tag.Key === key): index of the first match, 0 when none.   *)
RECURSIVE FindTagFrom(_, _, _)
FindTagFrom(b, key, i) ==
    IF i > Len(b) THEN 0
    ELSE IF b[i].Key = key THEN i
    ELSE FindTagFrom(b, key, i + 1)

findTag(b, key) == FindTagFrom(b, key, 1)

(* compareTags with the length test dropped.                                *)
compareTagsNoLength(a, b) ==
    \A i \in 1..Len(a) :
        LET j == findTag(b, a[i].Key)
        IN  j # 0 /\ b[j].Value = a[i].Value

compareTags(a, b) ==
    IF Len(a) # Len(b) THEN FALSE
    ELSE \A i \in 1..Len(a) :
            LET j == findTag(b, a[i].Key)
            IN  ~ (j = 0 \/ b[j].Value # a[i].Value)

-----------------------------------------------------------------------------
(* Templates.  A template is its Resources section, an ordered list of      *)
(* logical ids with their resources (object keys keep insertion order),     *)
(* and its Outputs section.  A resource carries its Type, the two           *)
(* properties the fast path looks at (Code and one other property) and its  *)
(* Metadata asset-path annotation.                                          *)

LogicalIds == {"Fn1", "Fn2"}
ResourceTypes == {"AWS::Lambda::Function", "AWS::CDK::Metadata", "AWS::S3::Bucket"}

(* Properties.Code: absent, an object {S3Bucket, S3Key}, or an object that  *)
(* holds S3Bucket only.  The S3Bucket of "sub/key2" is the object           *)
(* {Fn::Sub: "cdk-assets-${AWS::AccountId}-${AWS::Region}"} and that of     *)
(* "ref/key2" is a {Ref} object; the other buckets are strings.             *)
CodeValues == {"absent", "bucket1/key1", "bucket1/key2", "bucket1/", "sub/key2", "ref/key2"}

(* The values of the other property, by kind.                               *)
NumberValues == {"number:30", "number:60"}
BooleanValues == {"boolean:false", "boolean:true"}
StringValues == {"string:main.handler", "string:index.handler",
                 "string:modules-v1", "string:modules-v2"}
ObjectValues == {"object:{}", "object:{Variables}"}
ExtraValues == {"absent"} \cup NumberValues \cup BooleanValues \cup StringValues
                    \cup ObjectValues
AssetPaths == {"asset.a1", "asset.a2"}
MetadataValues == {"noMetadata", "noAssetPath"} \cup AssetPaths
OutputsSections == {"outputsA", "outputsB"}

Resource == [id : LogicalIds \cup {"CDKMetadata"}, Type : ResourceTypes, Code : CodeValues,
             Extra : ExtraValues, Metadata : MetadataValues]

LambdaFunction(id, code, extra, metadata) ==
    [id |-> id, Type |-> "AWS::Lambda::Function", Code |-> code, Extra |-> extra,
     Metadata |-> metadata]

CDKMetadata(id, extra, metadata) ==
    [id |-> id, Type |-> "AWS::CDK::Metadata", Code |-> "absent", Extra |-> extra,
     Metadata |-> metadata]

Bucket(id, extra) ==
    [id |-> id, Type |-> "AWS::S3::Bucket", Code |-> "absent", Extra |-> extra,
     Metadata |-> "noMetadata"]

UniqueIds(rs) == \A i, j \in 1..Len(rs) : rs[i].id = rs[j].id => i = j

Ids(template) == { template.Resources[i].id : i \in 1..Len(template.Resources) }

(* template.Resources[id], or a resource of Type "undefined" when absent.   *)
UndefinedResource(id) ==
    [id |-> id, Type |-> "undefined", Code |-> "absent", Extra |-> "absent",
     Metadata |-> "noMetadata"]

ResourceOf(template, id) ==
    IF id \in Ids(template)
    THEN LET i == CHOOSE k \in 1..Len(template.Resources) : template.Resources[k].id = id
         IN  template.Resources[i]
    ELSE UndefinedResource(id)

(* JSON.stringify: the text of a template, as the sequence of its tokens in *)
(* key order.                                                               *)
RECURSIVE StringifyResources(_)
StringifyResources(rs) ==
    IF rs = << >> THEN << >>
    ELSE << Head(rs).id, Head(rs).Type, Head(rs).Code, Head(rs).Extra, Head(rs).Metadata >>
         \o StringifyResources(Tail(rs))

JSONstringify(template) ==
    << "Resources" >> \o StringifyResources(template.Resources)
        \o << "Outputs", template.Outputs >>

(* JSON.stringify(desired) !== JSON.stringify(remote)                       *)
templateHasChanged(desired, remote) == JSONstringify(desired) # JSONstringify(remote)

-----------------------------------------------------------------------------
(* cfnDiff.diffTemplate: the per-resource differences, in the order of the  *)
(* old template's logical ids followed by the ids only the new one has.     *)

RECURSIVE IdsInOrder(_)
IdsInOrder(rs) == IF rs = << >> THEN << >> ELSE << Head(rs).id >> \o IdsInOrder(Tail(rs))

RECURSIVE Without(_, _)
Without(ids, S) ==
    IF ids = << >> THEN << >>
    ELSE IF Head(ids) \in S THEN Without(Tail(ids), S)
    ELSE << Head(ids) >> \o Without(Tail(ids), S)

unionOf(old, new) ==
    IdsInOrder(old.Resources) \o Without(IdsInOrder(new.Resources), Ids(old))

(* change.propertyUpdates: the properties whose value differs, each with   *)
(* its new value, for a resource present on both sides with the same Type. *)
propertyUpdates(oldValue, newValue) ==
    IF oldValue.Type = "undefined" \/ oldValue.Type # newValue.Type THEN {}
    ELSE (IF oldValue.Code # newValue.Code
          THEN {[key |-> "Code", newValue |-> newValue.Code]} ELSE {})
         \cup (IF oldValue.Extra # newValue.Extra
               THEN {[key |-> "Extra", newValue |-> newValue.Extra]} ELSE {})

ResourceDifference(old, new, id) ==
    [logicalId |-> id, oldValue |-> ResourceOf(old, id), newValue |-> ResourceOf(new, id)]

RECURSIVE DifferencesOf(_, _, _)
DifferencesOf(old, new, ids) ==
    IF ids = << >> THEN << >>
    ELSE IF ResourceOf(old, Head(ids)) = ResourceOf(new, Head(ids))
         THEN DifferencesOf(old, new, Tail(ids))
         ELSE << ResourceDifference(old, new, Head(ids)) >> \o DifferencesOf(old, new, Tail(ids))

diffTemplate(old, new) == DifferencesOf(old, new, unionOf(old, new))

(* The keys a for..in loop visits on a property value: the keys of an       *)
(* object, the indices of a string, nothing on a number or a boolean.       *)
KeysOf(value) ==
    CASE value \in {"bucket1/key1", "bucket1/key2", "sub/key2", "ref/key2"}
                -> {"S3Bucket", "S3Key"}
      [] value = "bucket1/" -> {"S3Bucket"}
      [] value = "object:{Variables}" -> {"Variables"}
      [] value \in StringValues -> {"0", "1"}
      [] OTHER -> {}

changeIsLambdaCode(change) ==
    IF change.newValue.Type = "undefined" THEN FALSE
    ELSE IF change.newValue.Type = "AWS::CDK::Metadata" THEN TRUE
    ELSE IF change.newValue.Type # "AWS::Lambda::Function" THEN FALSE
    ELSE \A diff \in propertyUpdates(change.oldValue, change.newValue) :
            /\ diff.newValue # "absent"
            /\ \A diffkey \in KeysOf(diff.newValue) :
                    ~ (diffkey # "S3Bucket" /\ diffkey # "S3Key")

-----------------------------------------------------------------------------
(* SkipDeployResult and canSkipDeploy.                                      *)

(* modifiedAssetPaths is an object from asset path to logical id, kept as   *)
(* the list of its entries in insertion order.                              *)
NoAssetPaths == << >>

SkipDeployResult(hasChanges, lambdaOnly, modifiedAssetPaths) ==
    [threw |-> FALSE, hasChanges |-> hasChanges, lambdaOnly |-> lambdaOnly,
     modifiedAssetPaths |-> modifiedAssetPaths]

(* canSkipDeploy did not return: reading a property of undefined.           *)
SkipDeployThrew ==
    [threw |-> TRUE, hasChanges |-> FALSE, lambdaOnly |-> "undefined",
     modifiedAssetPaths |-> NoAssetPaths]

NoSkipDeployResult ==
    [threw |-> FALSE, hasChanges |-> FALSE, lambdaOnly |-> "none",
     modifiedAssetPaths |-> NoAssetPaths]

(* obj[key] = value on an insertion-ordered object.                         *)
RECURSIVE SetEntry(_, _, _)
SetEntry(obj, key, value) ==
    IF obj = << >> THEN << [assetPath |-> key, logicalId |-> value] >>
    ELSE IF Head(obj).assetPath = key
         THEN << [assetPath |-> key, logicalId |-> value] >> \o Tail(obj)
         ELSE << Head(obj) >> \o SetEntry(Tail(obj), key, value)

(* The forEachDifference callback of canSkipDeploy, run over the            *)
(* differences from the i-th on.                                            *)
RECURSIVE forEachDifference(_, _, _, _)
forEachDifference(differences, i, lambdaOnly, modifiedLambdaFunctions) ==
    IF i > Len(differences)
    THEN SkipDeployResult(TRUE, IF lambdaOnly THEN "true" ELSE "false",
                          modifiedLambdaFunctions)
    ELSE LET change == differences[i] IN
         IF ~ changeIsLambdaCode(change)
         THEN forEachDifference(differences, i + 1, FALSE, modifiedLambdaFunctions)
         ELSE IF change.newValue.Metadata = "noMetadata"
         THEN SkipDeployThrew
         ELSE IF change.newValue.Metadata = "noAssetPath"
         THEN forEachDifference(differences, i + 1, FALSE, modifiedLambdaFunctions)
         ELSE forEachDifference(differences, i + 1, lambdaOnly,
                  SetEntry(modifiedLambdaFunctions, change.newValue.Metadata,
                           change.logicalId))

(* canSkipDeploy with the forced-deployment test dropped. *)
canSkipDeployNoForce(deployStackOptions, stack, remoteTemplate, paramChanges, isShortcut) ==
    IF ~ stack.exists
    THEN SkipDeployResult(TRUE, "undefined", NoAssetPaths)
    ELSE IF templateHasChanged(deployStackOptions.stack.template, remoteTemplate)
    THEN IF ~ isShortcut
         THEN SkipDeployResult(TRUE, "undefined", NoAssetPaths)
         ELSE forEachDifference(
                  diffTemplate(remoteTemplate, deployStackOptions.stack.template),
                  1, TRUE, NoAssetPaths)
    ELSE IF ~ compareTags(stack.tags, deployStackOptions.tags)
    THEN SkipDeployResult(TRUE, "undefined", NoAssetPaths)
    ELSE IF Truthy(deployStackOptions.stack.terminationProtection)
            # Truthy(stack.terminationProtection)
    THEN SkipDeployResult(TRUE, "undefined", NoAssetPaths)
    ELSE IF paramChanges
    THEN SkipDeployResult(TRUE, "undefined", NoAssetPaths)
    ELSE IF isFailure(stack.stackStatus)
    THEN SkipDeployResult(TRUE, "undefined", NoAssetPaths)
    ELSE SkipDeployResult(FALSE, "undefined", NoAssetPaths)

(* canSkipDeploy with the existence test dropped. *)
canSkipDeployNoExists(deployStackOptions, stack, remoteTemplate, paramChanges, isShortcut) ==
    IF deployStackOptions.force
    THEN SkipDeployResult(TRUE, "undefined", NoAssetPaths)
    ELSE IF templateHasChanged(deployStackOptions.stack.template, remoteTemplate)
    THEN IF ~ isShortcut
         THEN SkipDeployResult(TRUE, "undefined", NoAssetPaths)
         ELSE forEachDifference(
                  diffTemplate(remoteTemplate, deployStackOptions.stack.template),
                  1, TRUE, NoAssetPaths)
    ELSE IF ~ compareTags(stack.tags, deployStackOptions.tags)
    THEN SkipDeployResult(TRUE, "undefined", NoAssetPaths)
    ELSE IF Truthy(deployStackOptions.stack.terminationProtection)
            # Truthy(stack.terminationProtection)
    THEN SkipDeployResult(TRUE, "undefined", NoAssetPaths)
    ELSE IF paramChanges
    THEN SkipDeployResult(TRUE, "undefined", NoAssetPaths)
    ELSE IF isFailure(stack.stackStatus)
    THEN SkipDeployResult(TRUE, "undefined", NoAssetPaths)
    ELSE SkipDeployResult(FALSE, "undefined", NoAssetPaths)

(* canSkipDeploy comparing the termination-protection values without !!. *)
canSkipDeployStrictProtection(deployStackOptions, stack, remoteTemplate, paramChanges, isShortcut) ==
    IF deployStackOptions.force
    THEN SkipDeployResult(TRUE, "undefined", NoAssetPaths)
    ELSE IF ~ stack.exists
    THEN SkipDeployResult(TRUE, "undefined", NoAssetPaths)
    ELSE IF templateHasChanged(deployStackOptions.stack.template, remoteTemplate)
    THEN IF ~ isShortcut
         THEN SkipDeployResult(TRUE, "undefined", NoAssetPaths)
         ELSE forEachDifference(
                  diffTemplate(remoteTemplate, deployStackOptions.stack.template),
                  1, TRUE, NoAssetPaths)
    ELSE IF ~ compareTags(stack.tags, deployStackOptions.tags)
    THEN SkipDeployResult(TRUE, "undefined", NoAssetPaths)
    ELSE IF deployStackOptions.stack.terminationProtection # stack.terminationProtection
    THEN SkipDeployResult(TRUE, "undefined", NoAssetPaths)
    ELSE IF paramChanges
    THEN SkipDeployResult(TRUE, "undefined", NoAssetPaths)
    ELSE IF isFailure(stack.stackStatus)
    THEN SkipDeployResult(TRUE, "undefined", NoAssetPaths)
    ELSE SkipDeployResult(FALSE, "undefined", NoAssetPaths)

(* canSkipDeploy without the test of the failure status.                    *)
canSkipDeployIgnoringFailure(deployStackOptions, stack, remoteTemplate, paramChanges, isShortcut) ==
    IF deployStackOptions.force
    THEN SkipDeployResult(TRUE, "undefined", NoAssetPaths)
    ELSE IF ~ stack.exists
    THEN SkipDeployResult(TRUE, "undefined", NoAssetPaths)
    ELSE IF templateHasChanged(deployStackOptions.stack.template, remoteTemplate)
    THEN IF ~ isShortcut
         THEN SkipDeployResult(TRUE, "undefined", NoAssetPaths)
         ELSE forEachDifference(
                  diffTemplate(remoteTemplate, deployStackOptions.stack.template),
                  1, TRUE, NoAssetPaths)
    ELSE IF ~ compareTags(stack.tags, deployStackOptions.tags)
    THEN SkipDeployResult(TRUE, "undefined", NoAssetPaths)
    ELSE IF Truthy(deployStackOptions.stack.terminationProtection)
            # Truthy(stack.terminationProtection)
    THEN SkipDeployResult(TRUE, "undefined", NoAssetPaths)
    ELSE IF paramChanges
    THEN SkipDeployResult(TRUE, "undefined", NoAssetPaths)
    ELSE SkipDeployResult(FALSE, "undefined", NoAssetPaths)

canSkipDeploy(deployStackOptions, stack, remoteTemplate, paramChanges, isShortcut) ==
    IF deployStackOptions.force
    THEN SkipDeployResult(TRUE, "undefined", NoAssetPaths)
    ELSE IF ~ stack.exists
    THEN SkipDeployResult(TRUE, "undefined", NoAssetPaths)
    ELSE IF templateHasChanged(deployStackOptions.stack.template, remoteTemplate)
    THEN IF ~ isShortcut
         THEN SkipDeployResult(TRUE, "undefined", NoAssetPaths)
         ELSE forEachDifference(
                  diffTemplate(remoteTemplate, deployStackOptions.stack.template),
                  1, TRUE, NoAssetPaths)
    ELSE IF ~ compareTags(stack.tags, deployStackOptions.tags)
    THEN SkipDeployResult(TRUE, "undefined", NoAssetPaths)
    ELSE IF Truthy(deployStackOptions.stack.terminationProtection)
            # Truthy(stack.terminationProtection)
    THEN SkipDeployResult(TRUE, "undefined", NoAssetPaths)
    ELSE IF paramChanges
    THEN SkipDeployResult(TRUE, "undefined", NoAssetPaths)
    ELSE IF isFailure(stack.stackStatus)
    THEN SkipDeployResult(TRUE, "undefined", NoAssetPaths)
    ELSE SkipDeployResult(FALSE, "undefined", NoAssetPaths)

-----------------------------------------------------------------------------
(* CloudFormationStack snapshots (util/cloudformation).                     *)

(* CloudFormationStack.doesNotExist(cfn, deployName): the snapshot of a     *)
(* stack that was not found.  It holds no stack id.                         *)
doesNotExist ==
    [exists |-> FALSE, stackStatus |-> "NOT_FOUND", tags |-> << >>,
     terminationProtection |-> "undefined", outputs |-> "{}",
     parameters |-> "undefined"]

NoStack ==
    [exists |-> FALSE, stackStatus |-> "none", tags |-> << >>,
     terminationProtection |-> "undefined", outputs |-> "none",
     stackId |-> "none", parameters |-> "undefined"]

StackArn == "arn:stack"

ExistingStack(status, tags, protection, outputs, params) ==
    [exists |-> TRUE, stackStatus |-> status, tags |-> tags,
     terminationProtection |-> protection, outputs |-> outputs,
     stackId |-> StackArn, parameters |-> params]

(* Template parameters (TemplateParameters / ParameterValues): the template *)
(* declares one parameter; options.parameters supplies a value for it or    *)
(* not, and the remote stack holds a previous value for it or not.          *)
ParameterValues(suppliedValue, usePreviousParameters, previousValue) ==
    IF suppliedValue # "undefined"
    THEN [threw |-> FALSE, value |-> suppliedValue]
    ELSE IF usePreviousParameters /\ previousValue # "undefined"
    THEN [threw |-> FALSE, value |-> previousValue]
    ELSE [threw |-> TRUE, value |-> "undefined"]

(* stackParams.hasChanges(cloudFormationStack.parameters)                   *)
hasChanges(values, currentValue) == values.value # currentValue

(* changeSetHasNoChanges(changeSetDescription)                              *)
changeSetHasNoChanges(description) == description.changes = 0

-----------------------------------------------------------------------------
(* makeBodyParameter and restUrlFromManifest.                               *)

LARGE_TEMPLATE_SIZE_KB == 50

(* Texts (urls, object keys, template bodies) are sequences of tokens; the  *)
(* empty text stands for undefined as well, both being falsy.               *)
NoText == << >>

(* options.resolvedEnvironment and options.toolkitInfo.bucketUrl            *)
resolvedEnvironment == [account |-> "111122223333", region |-> "us-east-1"]
bucketUrl == "https://toolkit-bucket.s3.us-east-1.amazonaws.com"

(* stack.stackTemplateAssetObjectUrl as the manifest may hold it: absent,   *)
(* an s3:// url with or without placeholders, or another url.               *)
TemplateUrls ==
    { NoText,
      << "s3://", "bucket", "/", "template.yml" >>,
      << "s3://", "bucket-", "${AWS::AccountId}", "-", "${AWS::Region}", "/", "template.yml" >>,
      << "s3://", "bucket-", "${AWS::Partition}", "/", "template.yml" >>,
      << "https://", "host", "/", "template.yml" >>,
      << "https://", "host", "/", "${AWS::Partition}", "/", "template.yml" >>,
      << "https://", "host", "/", "s3://", "bucket", "/", "template.yml" >>,
      << "s3://", "bucket" >>,
      << "s3://", "bucket", "/" >>,
      << "s3://", "/", "template.yml" >> }

(* toYAML(stack.template): the serialized template text.                    *)
toYAML(template) == JSONstringify(template)

(* contentHash(templateJson): the digest of the text.  It is a function of  *)
(* the text alone; which digest a text is given, and whether two texts are  *)
(* given the same one, is not for deployStack to decide.                    *)
contentHash(templateJson) == digest[templateJson]

(* cxapi.EnvironmentPlaceholders.replace(url, {accountId, region,           *)
(* partition}): every placeholder replaced by the value given for it.       *)
replace(url, values) ==
    [i \in 1..Len(url) |->
        CASE url[i] = "${AWS::AccountId}" -> values.accountId
          [] url[i] = "${AWS::Region}" -> values.region
          [] url[i] = "${AWS::Partition}" -> values.partition
          [] OTHER -> url[i]]

(* url.indexOf(text) > -1                                                   *)
Contains(url, text) == \E i \in 1..Len(url) : url[i] = text

(* regionUtil.getEndpointSuffix(region)                                     *)
getEndpointSuffix(region) == "amazonaws.com"

BodyThrew(error) ==
    [threw |-> TRUE, error |-> error, TemplateBody |-> NoText, TemplateURL |-> NoText,
     objectKey |-> NoText, addedAsset |-> FALSE]

NoBodyParameter ==
    [threw |-> FALSE, error |-> "none", TemplateBody |-> NoText, TemplateURL |-> NoText,
     objectKey |-> NoText, addedAsset |-> FALSE]

(* { TemplateBody } or { TemplateURL }, with the object key of the template *)
(* asset added to the manifest, if one was added.                           *)
TemplateBodyParameter(body, url, key) ==
    [threw |-> FALSE, error |-> "none", TemplateBody |-> body, TemplateURL |-> url,
     objectKey |-> key, addedAsset |-> key # NoText]

doNotUseMarker == "**DONOTUSE**"

(* The tokens of a url that hold a "/": the separator and the schemes; a    *)
(* scheme is the text before its "//".                                      *)
Schemes == {"s3://", "https://"}
HasSlash(token) == token = "/" \/ token \in Schemes
SchemeName(token) == IF token = "s3://" THEN "s3:" ELSE "https:"

(* The first token after position i of the url that holds a "/", or 0.      *)
NextSlash(url, i) ==
    IF \E j \in (i + 1)..Len(url) : HasSlash(url[j])
    THEN CHOOSE j \in (i + 1)..Len(url) :
            HasSlash(url[j]) /\ \A k \in (i + 1)..(j - 1) : ~ HasSlash(url[k])
    ELSE 0

(* The pattern of restUrlFromManifest, line 714, matches at position i:     *)
(* "s3://", then a bucket name of one character or more without a "/",      *)
(* then a "/".                                                              *)
MatchesAt(url, i) ==
    /\ url[i] = "s3://"
    /\ NextSlash(url, i) # 0
    /\ NextSlash(url, i) > i + 1 \/ url[NextSlash(url, i)] \in Schemes

(* url.match of line 714: the leftmost match of the pattern anywhere in    *)
(* the url, as its bucket name and object key (the rest of the url, which   *)
(* may be empty), or none.                                                  *)
match(url) ==
    IF \E i \in 1..Len(url) : MatchesAt(url, i)
    THEN LET i == CHOOSE k \in 1..Len(url) :
                    MatchesAt(url, k) /\ \A h \in 1..(k - 1) : ~ MatchesAt(url, h)
             slash == NextSlash(url, i)
         IN  IF url[slash] = "/"
             THEN [matched |-> TRUE,
                   bucketName |-> SubSeq(url, i + 1, slash - 1),
                   objectKey |-> SubSeq(url, slash + 1, Len(url))]
             ELSE [matched |-> TRUE,
                   bucketName |-> SubSeq(url, i + 1, slash - 1)
                                      \o << SchemeName(url[slash]) >>,
                   objectKey |-> << "/" >> \o SubSeq(url, slash + 1, Len(url))]
    ELSE [matched |-> FALSE, bucketName |-> NoText, objectKey |-> NoText]

(* restUrlFromManifest accepting the stand-in of the partition.             *)
restUrlFromManifestUnchecked(url, environment) ==
    LET replaced == replace(url, [accountId |-> environment.account,
                                  region |-> environment.region,
                                  partition |-> doNotUseMarker])
    IN  IF ~ match(replaced).matched
        THEN TemplateBodyParameter(NoText, replaced, NoText)
        ELSE TemplateBodyParameter(NoText,
                 << "https://s3.", environment.region, ".",
                    getEndpointSuffix(environment.region), "/" >>
                    \o match(replaced).bucketName \o << "/" >>
                    \o match(replaced).objectKey,
                 NoText)

(* restUrlFromManifest, with a throw kept as a result that carries it.      *)
restUrlFromManifest(url, environment) ==
    LET replaced == replace(url, [accountId |-> environment.account,
                                  region |-> environment.region,
                                  partition |-> doNotUseMarker])
    IN  IF Contains(replaced, doNotUseMarker)
        THEN BodyThrew("Cannot use '${AWS::Partition}' in the 'stackTemplateAssetObjectUrl' field")
        ELSE IF ~ match(replaced).matched
        THEN TemplateBodyParameter(NoText, replaced, NoText)
        ELSE TemplateBodyParameter(NoText,
                 << "https://s3.", environment.region, ".",
                    getEndpointSuffix(environment.region), "/" >>
                    \o match(replaced).bucketName \o << "/" >>
                    \o match(replaced).objectKey,
                 NoText)

(* The template asset key of makeBodyParameter, lines 458-459.              *)
TemplateObjectKey(stack) ==
    << "cdk/", stack.id, "/" >> \o contentHash(toYAML(stack.template)) \o << ".yml" >>

(* makeBodyParameter inlining only templates strictly under the limit.      *)
makeBodyParameterStrictlyUnder(stack, toolkitInfo) ==
    IF stack.stackTemplateAssetObjectUrl # NoText
    THEN restUrlFromManifest(stack.stackTemplateAssetObjectUrl, resolvedEnvironment)
    ELSE IF stack.templateLength < LARGE_TEMPLATE_SIZE_KB * 1024
    THEN TemplateBodyParameter(toYAML(stack.template), NoText, NoText)
    ELSE IF ~ toolkitInfo.found
    THEN BodyThrew("Template too large to deploy (\"cdk bootstrap\" is required)")
    ELSE TemplateBodyParameter(NoText, << bucketUrl, "/" >> \o TemplateObjectKey(stack),
                               TemplateObjectKey(stack))

(* makeBodyParameter naming the template asset after the execution.         *)
makeBodyParameterKeyedByExecution(stack, toolkitInfo) ==
    IF stack.stackTemplateAssetObjectUrl # NoText
    THEN restUrlFromManifest(stack.stackTemplateAssetObjectUrl, resolvedEnvironment)
    ELSE IF stack.templateLength <= LARGE_TEMPLATE_SIZE_KB * 1024
    THEN TemplateBodyParameter(toYAML(stack.template), NoText, NoText)
    ELSE IF ~ toolkitInfo.found
    THEN BodyThrew("Template too large to deploy (\"cdk bootstrap\" is required)")
    ELSE TemplateBodyParameter(NoText,
                               << bucketUrl, "/", "cdk/", stack.id, "/", executionId', ".yml" >>,
                               << "cdk/", stack.id, "/", executionId', ".yml" >>)

(* makeBodyParameter; stack.templateLength is toYAML(stack.template).length *)
makeBodyParameter(stack, toolkitInfo) ==
    IF stack.stackTemplateAssetObjectUrl # NoText
    THEN restUrlFromManifest(stack.stackTemplateAssetObjectUrl, resolvedEnvironment)
    ELSE IF stack.templateLength <= LARGE_TEMPLATE_SIZE_KB * 1024
    THEN TemplateBodyParameter(toYAML(stack.template), NoText, NoText)
    ELSE IF ~ toolkitInfo.found
    THEN BodyThrew("Template too large to deploy (\"cdk bootstrap\" is required)")
    ELSE TemplateBodyParameter(NoText, << bucketUrl, "/" >> \o TemplateObjectKey(stack),
                               TemplateObjectKey(stack))

-----------------------------------------------------------------------------
(* Fast path: where the new code of a changed function lives.               *)

(* The characters of a text, as one string.                                 *)
RECURSIVE Join(_)
Join(text) == IF text = << >> THEN "" ELSE Head(text) \o Join(Tail(text))

(* text.replace(pattern, value) with a string for pattern: the first        *)
(* occurrence is replaced, the others are kept.                             *)
RECURSIVE replaceFirst(_, _, _)
replaceFirst(text, pattern, value) ==
    IF text = << >> THEN << >>
    ELSE IF Head(text) = pattern THEN << value >> \o Tail(text)
    ELSE << Head(text) >> \o replaceFirst(Tail(text), pattern, value)

(* assetPath.replace('asset.', '')                                          *)
AssetId(assetPath) ==
    CASE assetPath = "asset.a1" -> "a1"
      [] assetPath = "asset.a2" -> "a2"
      [] OTHER -> assetPath

(* deployStack, lines 266-287: the entries of stackParams.values in their   *)
(* order; an entry whose key holds the asset id sets the bucket when the    *)
(* key holds 'S3Bucket' and the key, with its '||' removed, when the key    *)
(* holds 'S3VersionKey'.  A later entry overwrites an earlier one.          *)
RECURSIVE ScanParameters(_, _, _)
ScanParameters(location, values, assetPath) ==
    IF values = << >> THEN location
    ELSE LET k == Head(values).key
             v == Head(values).value
             named == Contains(k, AssetId(assetPath))
             s3Bucket == IF named /\ Contains(k, "S3Bucket")
                         THEN Join(v) ELSE location.s3Bucket
             s3Key == IF named /\ Contains(k, "S3VersionKey")
                      THEN Join(replaceFirst(v, "||", "")) ELSE location.s3Key
         IN  ScanParameters([s3Bucket |-> s3Bucket, s3Key |-> s3Key], Tail(values),
                            assetPath)

(* The text of the Fn::Sub of the S3Bucket of "sub/key2".                   *)
BucketSub == << "cdk-assets-", "${AWS::AccountId}", "-", "${AWS::Region}" >>

(* deployStack, lines 304-317: Properties.Code.S3Bucket of the function, a  *)
(* string taken as it is, or an object whose Fn::Sub has the account and    *)
(* the region substituted.  Reading S3Bucket of a Code that is absent       *)
(* throws, and so does replacing in the Fn::Sub of an object without one.   *)
S3BucketOf(code, stackEnv) ==
    CASE code \in {"bucket1/key1", "bucket1/key2", "bucket1/"}
            -> [threw |-> FALSE, s3Bucket |-> "bucket1"]
      [] code = "sub/key2"
            -> [threw |-> FALSE,
                s3Bucket |-> Join(replaceFirst(replaceFirst(BucketSub, "${AWS::AccountId}",
                                                            stackEnv.account),
                                               "${AWS::Region}", stackEnv.region))]
      [] OTHER -> [threw |-> TRUE, s3Bucket |-> ""]

(* deployStack, line 318: Properties.Code.S3Key.                            *)
S3KeyOf(code) ==
    CASE code = "bucket1/key1" -> "key1"
      [] code \in {"bucket1/key2", "sub/key2", "ref/key2"} -> "key2"
      [] OTHER -> ""                 \* undefined: the object holds no S3Key

(* deployStack, lines 266-321: the location found in the stack parameters,  *)
(* or, when they leave the bucket or the key empty, the one in the rendered *)
(* properties of the function, which replaces both.                         *)
CodeLocation(values, template, stackEnv, assetPath, logicalFunctionName) ==
    LET scanned == ScanParameters([s3Bucket |-> "", s3Key |-> ""], values, assetPath)
        r == ResourceOf(template, logicalFunctionName)
    IN  IF scanned.s3Key # "" /\ scanned.s3Bucket # ""
        THEN [threw |-> FALSE, s3Bucket |-> scanned.s3Bucket, s3Key |-> scanned.s3Key]
        ELSE IF r.Type # "AWS::Lambda::Function"
        THEN [threw |-> FALSE, s3Bucket |-> scanned.s3Bucket, s3Key |-> scanned.s3Key]
        ELSE IF S3BucketOf(r.Code, stackEnv).threw
        THEN [threw |-> TRUE, s3Bucket |-> "", s3Key |-> ""]
        ELSE [threw |-> FALSE, s3Bucket |-> S3BucketOf(r.Code, stackEnv).s3Bucket,
              s3Key |-> S3KeyOf(r.Code)]

-----------------------------------------------------------------------------
(* Inputs of deployStack and destroyStack.                                  *)

StackArtifact(template, protection, length, url) ==
    [id |-> "Stack", stackName |-> "Stack", template |-> template,
     terminationProtection |-> protection,
     templateLength |-> length, stackTemplateAssetObjectUrl |-> url]

Options(force, shortcut, execute, quiet, tags, parameters, usePrevious, found, stack) ==
    [force |-> force, shortcut |-> shortcut, execute |-> execute, quiet |-> quiet,
     tags |-> tags, parameters |-> parameters, usePreviousParameters |-> usePrevious,
     toolkitInfo |-> [found |-> found], stack |-> stack, deployName |-> "undefined",
     assetParameters |-> << >>]

(* The synthesized template of the orchestration runs: a function whose     *)
(* code is an asset, and a bucket.                                          *)
DesiredTemplate ==
    [Resources |-> << LambdaFunction("Fn1", "bucket1/key2", "absent", "asset.a1"),
                      Bucket("Fn2", "absent") >>,
     Outputs |-> "outputsA"]

Reversed(template) ==
    [Resources |-> [i \in 1..Len(template.Resources) |->
                        template.Resources[Len(template.Resources) + 1 - i]],
     Outputs |-> template.Outputs]

(* What the remote stack may hold against DesiredTemplate: the same text,   *)
(* the same resources in another key order, older function code, or         *)
(* another bucket configuration.                                            *)
RemoteTemplates ==
    { DesiredTemplate,
      Reversed(DesiredTemplate),
      [Resources |-> << LambdaFunction("Fn1", "bucket1/key1", "absent", "asset.a1"),
                        Bucket("Fn2", "absent") >>,
       Outputs |-> "outputsA"],
      [Resources |-> << LambdaFunction("Fn1", "bucket1/key2", "absent", "asset.a1"),
                        Bucket("Fn2", "string:index.handler") >>,
       Outputs |-> "outputsA"] }

NoTemplate == [Resources |-> << >>, Outputs |-> "none"]

OrchestrationTags == { << >>, << [Key |-> "env", Value |-> "prod"] >> }

ParameterInputs == {"undefined", "p1"}

(* Serialized template sizes on both sides of the inline limit, with and    *)
(* without a bootstrap stack to stage an oversized template in, and         *)
(* templates already uploaded by the synthesizer.                           *)
BodyInputs ==
    { [length |-> LARGE_TEMPLATE_SIZE_KB * 1024, found |-> FALSE, url |-> NoText],
      [length |-> LARGE_TEMPLATE_SIZE_KB * 1024 + 1, found |-> FALSE, url |-> NoText],
      [length |-> LARGE_TEMPLATE_SIZE_KB * 1024 + 1, found |-> TRUE, url |-> NoText],
      [length |-> LARGE_TEMPLATE_SIZE_KB * 1024 + 1, found |-> FALSE,
       url |-> << "s3://", "bucket-", "${AWS::AccountId}", "-", "${AWS::Region}", "/",
                  "template.yml" >>],
      [length |-> LARGE_TEMPLATE_SIZE_KB * 1024, found |-> TRUE,
       url |-> << "s3://", "bucket-", "${AWS::Partition}", "/", "template.yml" >>] }

DeployOptions ==
    { Options(force, shortcut, execute, quiet, tags, parameters, usePrevious, body.found,
              StackArtifact(DesiredTemplate, protection, body.length, body.url)) :
        force \in BOOLEAN, shortcut \in BOOLEAN, execute \in Optional, quiet \in BOOLEAN,
        tags \in OrchestrationTags, parameters \in ParameterInputs,
        usePrevious \in BOOLEAN, body \in BodyInputs, protection \in Optional }

(* DeployStackOptions.deployName: left out, the empty name, or a name other *)
(* than the artifact's.                                                     *)
DeployNames == {"undefined", "", "Renamed"}

DestroyOptions ==
    { [Options(FALSE, FALSE, "undefined", quiet, << >>, "undefined", FALSE, FALSE,
               StackArtifact(DesiredTemplate, "undefined", LARGE_TEMPLATE_SIZE_KB * 1024,
                             NoText))
          EXCEPT !.deployName = name] :
        quiet \in BOOLEAN, name \in DeployNames }

(* What CloudFormationStack.lookup may return.                              *)
ExistingStatuses == {"CREATE_COMPLETE", "REVIEW_IN_PROGRESS", "ROLLBACK_COMPLETE",
                     "UPDATE_ROLLBACK_FAILED"}
StackOutputs == {"out1", "out2"}

LookupResults ==
    {doesNotExist} \cup
    { ExistingStack(status, tags, protection, "out1", params) :
        status \in ExistingStatuses, tags \in OrchestrationTags,
        protection \in {"true", "false"}, params \in ParameterInputs }

NoStackParams == [value |-> "undefined", hasChanges |-> FALSE, values |-> << >>]

NoAttempts == << >>

NoStage == << >>

NoChangeSet == [type |-> "none", changes |-> -1, StackId |-> "none",
                ChangeSetName |-> "none"]
NoResult == [kind |-> "running", noOp |-> "undefined", outputs |-> "none",
             stackArn |-> "none", error |-> "none", status |-> "none"]

(* No text is hashed.                                                       *)
NoDigests == << >>

(* The digest of the one template a run of deployStack may stage.           *)
DigestOfRun == [t \in {toYAML(options.stack.template)} |-> << "h1" >>]

Init ==
    /\ op \in {"deploy", "destroy"}
    /\ options \in (IF op = "deploy" THEN DeployOptions ELSE DestroyOptions)
    /\ pc = "lookup"
    /\ cloudFormationStack = NoStack
    /\ lookedUp = NoStack
    /\ cfnStackTemplate = NoTemplate
    /\ stackParams = NoStackParams
    /\ skipDeployResult = NoSkipDeployResult
    /\ changeSet = NoChangeSet
    /\ bodyParameter = NoBodyParameter
    /\ executionId = "none"
    /\ stage = NoStage
    /\ completion = NoResult
    /\ digest = DigestOfRun
    /\ attempts = NoAttempts
    /\ assetIndex = 1
    /\ calls = << >>
    /\ monitor = [started |-> 0, stopped |-> 0]
    /\ result = NoResult

-----------------------------------------------------------------------------
(* Remote calls and outcomes.                                               *)

(* A call: its name and, in arg, the argument the claims look at (the       *)
(* ChangeSetType, the logical id) or the answer of a wait.                  *)
Call(name, arg) ==
    [name |-> name, arg |-> arg, s3Bucket |-> "", s3Key |-> "", StackName |-> ""]

Issue(name, arg) == Append(calls, Call(name, arg))

(* deployStack, line 193 (destroyStack, line 488): the name every call on   *)
(* the stack is given, the supplied deployName or else the artifact's name. *)
deployName ==
    IF options.deployName \notin {"undefined", ""} THEN options.deployName
                                                   ELSE options.stack.stackName

(* A call that names a stack in its StackName parameter.                    *)
IssueOn(stackName, name, arg) ==
    Append(calls, [Call(name, arg) EXCEPT !.StackName = stackName])

Returned(noOp, outputs, stackArn) ==
    [kind |-> "returned", noOp |-> noOp, outputs |-> outputs, stackArn |-> stackArn,
     error |-> "none", status |-> "none"]

Thrown(error) ==
    [kind |-> "thrown", noOp |-> "undefined", outputs |-> "none", stackArn |-> "none",
     error |-> error, status |-> "none"]

(* An error whose message ends with the status of a stack.                  *)
ThrownNaming(error, status) == [Thrown(error) EXCEPT !.status = status]

(* A try block that ended without an error, its finally block yet to run.   *)
CompletedNormally == [NoResult EXCEPT !.kind = "normal"]

Throw(error) == pc' = "failed" /\ result' = Thrown(error)

ThrowNaming(error, status) == pc' = "failed" /\ result' = ThrownNaming(error, status)

Return(noOp, outputs, stackArn) == pc' = "done" /\ result' = Returned(noOp, outputs, stackArn)

(* options.quiet ? undefined : StackActivityMonitor...start()               *)
MonitorStarted == IF options.quiet THEN monitor ELSE [monitor EXCEPT !.started = @ + 1]

(* The monitor left running.                                                *)
MonitorNotStopped == monitor

(* monitor?.stop() / if (monitor) { await monitor.stop(); }                 *)
MonitorStopped == IF options.quiet THEN monitor ELSE [monitor EXCEPT !.stopped = @ + 1]

-----------------------------------------------------------------------------
(* deployStack.                                                             *)

(* deployStack, lines 194-196: the lookup and the creation-failure test.    *)
Lookup ==
    /\ op = "deploy" /\ pc = "lookup"
    /\ calls' = IssueOn(deployName, "describeStacks", "")
    /\ \/ \E stack \in LookupResults :
            /\ cloudFormationStack' = stack
            /\ lookedUp' = stack
            /\ pc' = IF isCreationFailure(stack.stackStatus) THEN "deleteStack"
                     ELSE "parameters"
            /\ UNCHANGED result
       \/ /\ Throw("describeStacks failed")
          /\ UNCHANGED << cloudFormationStack, lookedUp >>
    /\ UNCHANGED << completion, stage, attempts, executionId, op, digest, options, cfnStackTemplate, stackParams, skipDeployResult,
                    changeSet, bodyParameter, assetIndex, monitor >>

(* deployStack, line 198: delete the stack whose creation failed.           *)
DeleteFailedStack ==
    /\ op = "deploy" /\ pc = "deleteStack"
    /\ calls' = IssueOn(deployName, "deleteStack", "")
    /\ \/ pc' = "waitForStackDelete" /\ UNCHANGED result
       \/ Throw("deleteStack failed")
    /\ UNCHANGED << completion, stage, attempts, executionId, op, digest, options, cloudFormationStack, lookedUp, cfnStackTemplate,
                    stackParams, skipDeployResult, changeSet, bodyParameter, assetIndex,
                    monitor >>

(* What waitForStackDelete may return: undefined when the stack is gone,    *)
(* or the stack in the state it settled in.                                 *)
DeleteWaitResults == {"undefined", "DELETE_COMPLETE", "DELETE_FAILED"}

(* The delete test with the status comparison dropped.                     *)
deleteDidNotCompleteNever(deletedStack) == FALSE

(* deletedStack && deletedStack.stackStatus.name !== 'DELETE_COMPLETE'      *)
deleteDidNotComplete(deletedStack) ==
    deletedStack # "undefined" /\ deletedStack # "DELETE_COMPLETE"

(* The snapshot kept after the cleanup, left as it was looked up.           *)
StackAfterCleanupStale == cloudFormationStack

(* deployStack, line 206: the stack is marked as not existing any more.     *)
StackAfterCleanup == doesNotExist

(* deployStack, lines 199-206.                                              *)
WaitForStackDelete ==
    /\ op = "deploy" /\ pc = "waitForStackDelete"
    /\ \/ \E deletedStack \in DeleteWaitResults :
            /\ calls' = IssueOn(deployName, "waitForStackDelete", deletedStack)
            /\ IF deleteDidNotComplete(deletedStack)
               THEN /\ ThrowNaming("Failed deleting stack that had previously failed creation",
                                   deletedStack)
                    /\ UNCHANGED cloudFormationStack
               ELSE /\ cloudFormationStack' = StackAfterCleanup
                    /\ pc' = "parameters"
                    /\ UNCHANGED result
       \/ /\ calls' = IssueOn(deployName, "waitForStackDelete", "threw")
          /\ Throw("waitForStackDelete failed")
          /\ UNCHANGED cloudFormationStack
    /\ UNCHANGED << completion, stage, attempts, executionId, op, digest, options, lookedUp, cfnStackTemplate, stackParams,
                    skipDeployResult, changeSet, bodyParameter, assetIndex, monitor >>

(* deployStack, lines 212-220: the asset parameters and the template        *)
(* parameters.  The entries of the final parameter values that name an      *)
(* asset parameter of the template are values of stackParams as supplied.   *)
Parameters ==
    /\ op = "deploy" /\ pc = "parameters"
    /\ LET values == ParameterValues(options.parameters, options.usePreviousParameters,
                                     cloudFormationStack.parameters)
       IN  IF values.threw
           THEN Throw("missing parameter value") /\ UNCHANGED stackParams
           ELSE /\ stackParams' =
                      [value |-> values.value,
                       hasChanges |-> hasChanges(values, cloudFormationStack.parameters),
                       values |-> options.assetParameters]
                /\ pc' = "canSkipDeploy"
                /\ UNCHANGED result
    /\ UNCHANGED << completion, stage, attempts, executionId, op, digest, options, cloudFormationStack, lookedUp, cfnStackTemplate,
                    skipDeployResult, changeSet, bodyParameter, assetIndex, calls,
                    monitor >>

(* { noOp, outputs: cloudFormationStack.outputs,                            *)
(*   stackArn: cloudFormationStack.stackId, stackArtifact }: the result     *)
(* built from the snapshot.  A snapshot of a stack that does not exist has  *)
(* no stack id to give, and reading it throws instead.                      *)
ResultFromSnapshot(noOp) ==
    IF cloudFormationStack.exists
    THEN [pc |-> "done",
          result |-> Returned(noOp, cloudFormationStack.outputs,
                              cloudFormationStack.stackId)]
    ELSE [pc |-> "failed", result |-> Thrown("No stack named")]

ReturnFromSnapshot(noOp) ==
    /\ pc' = ResultFromSnapshot(noOp).pc
    /\ result' = ResultFromSnapshot(noOp).result

(* canSkipDeploy fetches the remote template only past the forced and the   *)
(* existence tests.                                                         *)
FetchesTemplate == ~ options.force /\ cloudFormationStack.exists

(* deployStack, lines 229-344, with the skip test dropped: the result of    *)
(* canSkipDeploy is ignored and the deployment goes on.                     *)
AfterSkipDecisionNeverSkips(decision) ==
    IF decision.threw
    THEN [pc |-> "failed", result |-> Thrown("canSkipDeploy failed")]
    ELSE IF options.shortcut
    THEN IF Truthy(decision.lambdaOnly)
         THEN [pc |-> "publishChangedAssets", result |-> result]
         ELSE ResultFromSnapshot("true")
    ELSE [pc |-> "makeBodyParameter", result |-> result]

(* deployStack, lines 229-344: what follows the skip decision.              *)
(* deployStack, lines 229-344, with the fast path returning at once: no     *)
(* asset is published and no function is updated.                           *)
AfterSkipDecisionWithoutUpdate(decision) ==
    IF decision.threw
    THEN [pc |-> "failed", result |-> Thrown("canSkipDeploy failed")]
    ELSE IF ~ decision.hasChanges
    THEN ResultFromSnapshot("true")
    ELSE IF options.shortcut
    THEN ResultFromSnapshot(IF Truthy(decision.lambdaOnly) THEN "false" ELSE "true")
    ELSE [pc |-> "makeBodyParameter", result |-> result]

(* deployStack, lines 229-344, with the not-eligible return built without   *)
(* reading the stack id of the snapshot.                                    *)
AfterSkipDecisionWithoutStackId(decision) ==
    IF decision.threw
    THEN [pc |-> "failed", result |-> Thrown("canSkipDeploy failed")]
    ELSE IF ~ decision.hasChanges
    THEN ResultFromSnapshot("true")
    ELSE IF options.shortcut
    THEN IF Truthy(decision.lambdaOnly)
         THEN [pc |-> "publishChangedAssets", result |-> result]
         ELSE [pc |-> "done",
               result |-> Returned("true", cloudFormationStack.outputs, "undefined")]
    ELSE [pc |-> "makeBodyParameter", result |-> result]

AfterSkipDecision(decision) ==
    IF decision.threw
    THEN [pc |-> "failed", result |-> Thrown("canSkipDeploy failed")]
    ELSE IF ~ decision.hasChanges
    THEN ResultFromSnapshot("true")
    ELSE IF options.shortcut
    THEN IF Truthy(decision.lambdaOnly)
         THEN [pc |-> "publishChangedAssets", result |-> result]
         ELSE ResultFromSnapshot("true")
    ELSE [pc |-> "makeBodyParameter", result |-> result]

(* deployStack, lines 222-344: the skip decision and the branch on it, the  *)
(* remote stack holding one of the given templates.                         *)
CanSkipDeployAgainst(remoteTemplates) ==
    /\ op = "deploy" /\ pc = "canSkipDeploy"
    /\ \/ \E remote \in (IF FetchesTemplate THEN remoteTemplates ELSE {NoTemplate}) :
            LET decision == canSkipDeploy(options, cloudFormationStack, remote,
                                          stackParams.hasChanges, options.shortcut)
                next == AfterSkipDecision(decision)
            IN  /\ cfnStackTemplate' = remote
                /\ calls' = IF FetchesTemplate
                            THEN IssueOn(deployName, "getTemplate", "")
                            ELSE calls
                /\ skipDeployResult' = decision
                /\ pc' = next.pc
                /\ result' = next.result
       \/ /\ FetchesTemplate
          /\ calls' = IssueOn(deployName, "getTemplate", "")
          /\ Throw("getTemplate failed")
          /\ UNCHANGED << cfnStackTemplate, skipDeployResult >>
    /\ UNCHANGED << completion, stage, attempts, executionId, op, digest, options, cloudFormationStack, lookedUp, stackParams, changeSet,
                    bodyParameter, assetIndex, monitor >>

CanSkipDeploy == CanSkipDeployAgainst(RemoteTemplates)

(* deployStack, lines 249-252: the filter list, one id per key of the       *)
(* mapping in its order, written as the text "filter:id,id".                *)
RECURSIVE PushFilterIds(_, _, _)
PushFilterIds(filterIds, modifiedAssetPaths, i) ==
    IF i > Len(modifiedAssetPaths) THEN filterIds
    ELSE PushFilterIds(filterIds \o (IF i = 1 THEN "" ELSE ",")
                                 \o AssetId(modifiedAssetPaths[i].assetPath),
                       modifiedAssetPaths, i + 1)

FilterIds(modifiedAssetPaths) == PushFilterIds("filter:", modifiedAssetPaths, 1)

(* deployStack, lines 249-259 and 327-332: publish the changed assets.      *)
PublishChangedAssets ==
    /\ op = "deploy" /\ pc = "publishChangedAssets"
    /\ calls' = Issue("publishAssets", FilterIds(skipDeployResult.modifiedAssetPaths))
    /\ \/ IF skipDeployResult.modifiedAssetPaths = << >>
          THEN ReturnFromSnapshot("false")
          ELSE pc' = "getFunctionName" /\ UNCHANGED result
       \/ Throw("publishAssets failed")
    /\ UNCHANGED << completion, stage, attempts, executionId, op, digest, options, cloudFormationStack, lookedUp, cfnStackTemplate,
                    stackParams, skipDeployResult, changeSet, bodyParameter, assetIndex,
                    monitor >>

(* The entry of the mapping the loop of lines 262-325 is at.                 *)
ModifiedAsset == skipDeployResult.modifiedAssetPaths[assetIndex]

(* deployStack, lines 290-291, and getFunctionName, line 67: the            *)
(* CloudFormation client of the environment is awaited; the sdk provider    *)
(* gives it or rejects.                                                     *)
CloudformationClient ==
    /\ op = "deploy" /\ pc = "getFunctionName"
    /\ \/ pc' = "describeStackResources" /\ UNCHANGED result
       \/ Throw("forEnvironment failed")
    /\ UNCHANGED << completion, stage, attempts, executionId, op, digest, options, cloudFormationStack, lookedUp, cfnStackTemplate,
                    stackParams, skipDeployResult, changeSet, bodyParameter, assetIndex,
                    monitor, calls >>

(* getFunctionName, lines 68-71: the physical name of the changed function. *)
GetFunctionName ==
    /\ op = "deploy" /\ pc = "describeStackResources"
    /\ calls' = IssueOn(options.stack.stackName, "describeStackResources",
                      ModifiedAsset.logicalId)
    /\ \/ pc' = "shortcutLambdaFunction" /\ UNCHANGED result
       \/ Throw("describeStackResources failed")
    /\ UNCHANGED << completion, stage, attempts, executionId, op, digest, options, cloudFormationStack, lookedUp, cfnStackTemplate,
                    stackParams, skipDeployResult, changeSet, bodyParameter, assetIndex,
                    monitor >>

(* The code location of the entry the loop is at.                           *)
LocationOfEntry ==
    CodeLocation(stackParams.values, options.stack.template, resolvedEnvironment,
                 ModifiedAsset.assetPath, ModifiedAsset.logicalId)

(* deployStack, lines 293-324, and shortcutLambdaFunction, lines 39-49: the *)
(* code is located, which may throw, and the Lambda client of the           *)
(* environment is awaited; the sdk provider gives it or rejects.            *)
LambdaClient ==
    /\ op = "deploy" /\ pc = "shortcutLambdaFunction"
    /\ IF LocationOfEntry.threw
       THEN Throw("cannot read the code location")
       ELSE \/ pc' = "updateFunctionCode" /\ UNCHANGED result
            \/ Throw("forEnvironment failed")
    /\ UNCHANGED << completion, stage, attempts, executionId, op, digest, options, cloudFormationStack, lookedUp, cfnStackTemplate,
                    stackParams, skipDeployResult, changeSet, bodyParameter, assetIndex,
                    monitor, calls >>

(* shortcutLambdaFunction, lines 50-51, and deployStack, lines 262 and      *)
(* 325-332: the function is given the code of the location.                 *)
UpdateFunctionCode ==
    /\ op = "deploy" /\ pc = "updateFunctionCode"
    /\ calls' = Append(calls,
             [name |-> "updateFunctionCode", arg |-> ModifiedAsset.logicalId,
              s3Bucket |-> LocationOfEntry.s3Bucket, s3Key |-> LocationOfEntry.s3Key,
              StackName |-> ""])
    /\ \/ /\ assetIndex' = assetIndex + 1
          /\ IF assetIndex = Len(skipDeployResult.modifiedAssetPaths)
             THEN ReturnFromSnapshot("false")
             ELSE pc' = "getFunctionName" /\ UNCHANGED result
       \/ Throw("updateFunctionCode failed") /\ UNCHANGED assetIndex
    /\ UNCHANGED << completion, stage, attempts, executionId, op, digest, options, cloudFormationStack, lookedUp, cfnStackTemplate,
                    stackParams, skipDeployResult, changeSet, bodyParameter, monitor >>

(* uuid.v4(): the tokens an attempt may draw.                               *)
ExecutionIds == {"uuid1", "uuid2"}

(* deployStack, lines 346-347.                                              *)
MakeBodyParameter ==
    /\ op = "deploy" /\ pc = "makeBodyParameter"
    /\ executionId' \in ExecutionIds
    /\ LET body == makeBodyParameter(options.stack, options.toolkitInfo)
       IN  /\ bodyParameter' = body
           /\ IF body.threw THEN Throw(body.error)
              ELSE pc' = "publishAssets" /\ UNCHANGED result
    /\ UNCHANGED << completion, stage, attempts, op, digest, options, cloudFormationStack, lookedUp, cfnStackTemplate,
                    stackParams, skipDeployResult, changeSet, assetIndex, calls, monitor >>

(* deployStack, line 349.                                                   *)
PublishAssets ==
    /\ op = "deploy" /\ pc = "publishAssets"
    /\ calls' = Issue("publishAssets", "all")
    /\ \/ pc' = "createChangeSet" /\ UNCHANGED result
       \/ Throw("publishAssets failed")
    /\ UNCHANGED << completion, stage, attempts, executionId, op, digest, options, cloudFormationStack, lookedUp, cfnStackTemplate,
                    stackParams, skipDeployResult, changeSet, bodyParameter, assetIndex,
                    monitor >>

(* The change-set type chosen from the existence of the stack alone.        *)
ChangeSetTypeByExistence(stack) == IF stack.exists THEN "UPDATE" ELSE "CREATE"

(* deployStack, lines 352 and 359: update ? 'UPDATE' : 'CREATE'             *)
ChangeSetType(stack) ==
    IF stack.exists /\ stack.stackStatus # "REVIEW_IN_PROGRESS" THEN "UPDATE" ELSE "CREATE"

(* The change-set name given to every attempt.                             *)
changeSetNameFixed(id) == "CDK-changeset"

(* deployStack, line 351: `CDK-${executionId}`                              *)
changeSetName(id) == "CDK-" \o id

(* createChangeSet not followed by the wait for the change-set.            *)
CreateChangeSetWithoutWait ==
    /\ op = "deploy" /\ pc = "createChangeSet"
    /\ calls' = IssueOn(deployName, "createChangeSet", ChangeSetType(cloudFormationStack))
    /\ \/ /\ changeSet' = [type |-> ChangeSetType(cloudFormationStack), changes |-> -1,
                           StackId |-> StackArn,
                           ChangeSetName |-> changeSetName(executionId)]
          /\ pc' = "updateTerminationProtection"
          /\ UNCHANGED result
       \/ Throw("createChangeSet failed") /\ UNCHANGED changeSet
    /\ UNCHANGED << completion, stage, attempts, executionId, op, digest, options, cloudFormationStack, lookedUp, cfnStackTemplate,
                    stackParams, skipDeployResult, bodyParameter, assetIndex, monitor >>

(* deployStack, lines 351-368.                                              *)
CreateChangeSet ==
    /\ op = "deploy" /\ pc = "createChangeSet"
    /\ calls' = IssueOn(deployName, "createChangeSet", ChangeSetType(cloudFormationStack))
    /\ \/ /\ changeSet' = [type |-> ChangeSetType(cloudFormationStack), changes |-> -1,
                           StackId |-> StackArn,
                           ChangeSetName |-> changeSetName(executionId)]
          /\ pc' = "waitForChangeSet"
          /\ UNCHANGED result
       \/ Throw("createChangeSet failed") /\ UNCHANGED changeSet
    /\ UNCHANGED << completion, stage, attempts, executionId, op, digest, options, cloudFormationStack, lookedUp, cfnStackTemplate,
                    stackParams, skipDeployResult, bodyParameter, assetIndex, monitor >>

MaxChanges == 1       \* most resource changes a change-set description lists

(* deployStack, line 370: the change-set has finished computing.           *)
WaitForChangeSet ==
    /\ op = "deploy" /\ pc = "waitForChangeSet"
    /\ calls' = IssueOn(deployName, "waitForChangeSet", "")
    /\ \/ \E n \in 0..MaxChanges :
            /\ changeSet' = [changeSet EXCEPT !.changes = n]
            /\ pc' = "updateTerminationProtection"
            /\ UNCHANGED result
       \/ Throw("waitForChangeSet failed") /\ UNCHANGED changeSet
    /\ UNCHANGED << completion, stage, attempts, executionId, op, digest, options, cloudFormationStack, lookedUp, cfnStackTemplate,
                    stackParams, skipDeployResult, bodyParameter, assetIndex, monitor >>

(* The termination protection updated whatever the remote flag.             *)
terminationProtectionAlwaysUpdated == TRUE

(* deployStack, lines 373-374.                                              *)
terminationProtectionChanged ==
    Truthy(cloudFormationStack.terminationProtection)
        # OrFalse(options.stack.terminationProtection)

(* The empty-change-set test answering that there always are changes.       *)
AfterChangeSetIgnoringEmpty ==
    IF OrTrue(options.execute)
    THEN [pc |-> "executeChangeSet", result |-> result]
    ELSE [pc |-> "done",
          result |-> Returned("false", cloudFormationStack.outputs, changeSet.StackId)]

(* deployStack, lines 383-415: what follows the termination-protection     *)
(* update.                                                                  *)
AfterChangeSet ==
    IF changeSetHasNoChanges(changeSet)
    THEN [pc |-> "deleteChangeSet", result |-> result]
    ELSE IF OrTrue(options.execute)
    THEN [pc |-> "executeChangeSet", result |-> result]
    ELSE [pc |-> "done",
          result |-> Returned("false", cloudFormationStack.outputs, changeSet.StackId)]

(* deployStack, lines 372-381.                                              *)
UpdateTerminationProtection ==
    /\ op = "deploy" /\ pc = "updateTerminationProtection"
    /\ \/ /\ terminationProtectionChanged
          /\ calls' = IssueOn(deployName, "updateTerminationProtection",
                            IF OrFalse(options.stack.terminationProtection)
                            THEN "true" ELSE "false")
          /\ \/ pc' = AfterChangeSet.pc /\ result' = AfterChangeSet.result
             \/ Throw("updateTerminationProtection failed")
       \/ /\ ~ terminationProtectionChanged
          /\ pc' = AfterChangeSet.pc /\ result' = AfterChangeSet.result
          /\ UNCHANGED calls
    /\ UNCHANGED << completion, stage, attempts, executionId, op, digest, options, cloudFormationStack, lookedUp, cfnStackTemplate,
                    stackParams, skipDeployResult, changeSet, bodyParameter, assetIndex,
                    monitor >>

(* deployStack, line 386: the outputs returned with an empty change-set.    *)
NoOpOutputs == cloudFormationStack.outputs

(* deployStack, lines 383-387.                                              *)
DeleteChangeSet ==
    /\ op = "deploy" /\ pc = "deleteChangeSet"
    /\ calls' = IssueOn(deployName, "deleteChangeSet", "")
    /\ \/ Return("true", NoOpOutputs, changeSet.StackId)
       \/ Throw("deleteChangeSet failed")
    /\ UNCHANGED << completion, stage, attempts, executionId, op, digest, options, cloudFormationStack, lookedUp, cfnStackTemplate,
                    stackParams, skipDeployResult, changeSet, bodyParameter, assetIndex,
                    monitor >>

(* deployStack, lines 390-399: execute, then start the monitor.             *)
ExecuteChangeSet ==
    /\ op = "deploy" /\ pc = "executeChangeSet"
    /\ calls' = IssueOn(deployName, "executeChangeSet", "")
    /\ \/ /\ monitor' = MonitorStarted
          /\ pc' = "waitForStackDeploy"
          /\ UNCHANGED result
       \/ Throw("executeChangeSet failed") /\ UNCHANGED monitor
    /\ UNCHANGED << completion, stage, attempts, executionId, op, digest, options, cloudFormationStack, lookedUp, cfnStackTemplate,
                    stackParams, skipDeployResult, changeSet, bodyParameter, assetIndex >>

(* The stacks waitForStackDeploy may return after a successful execution.   *)
FinalStacks ==
    { ExistingStack(IF changeSet.type = "CREATE" THEN "CREATE_COMPLETE"
                    ELSE "UPDATE_COMPLETE",
                    options.tags,
                    IF OrFalse(options.stack.terminationProtection) THEN "true" ELSE "false",
                    outputs, stackParams.value) :
        outputs \in StackOutputs }

(* waitForStackDeploy answering undefined: the stack is gone.               *)
NoFinalStack == doesNotExist

(* A vanished stack taken for a deployed one.                               *)
stackDisappearedNever(finalStack) == FALSE

(* deployStack, line 404: !finalStack                                       *)
stackDisappeared(finalStack) == finalStack = NoFinalStack

(* The outputs of the snapshot looked up before the deployment.             *)
DeployedOutputsStale(stack) == lookedUp.outputs

(* deployStack, line 414: outputs: cloudFormationStack.outputs              *)
DeployedOutputs(stack) == stack.outputs

(* deployStack, lines 400-406: the wait is answered inside the try block.   *)
(* The call records what the wait answered; the error the block threw, or   *)
(* its normal completion, is held until the finally block has run.          *)
WaitForStackDeploy ==
    /\ op = "deploy" /\ pc = "waitForStackDeploy"
    /\ pc' = "stopMonitor"
    /\ \/ \E finalStack \in FinalStacks \cup {NoFinalStack} :
            /\ calls' = IssueOn(deployName, "waitForStackDeploy",
                              IF finalStack = NoFinalStack THEN "undefined"
                              ELSE finalStack.stackStatus)
            /\ IF stackDisappeared(finalStack)
               THEN /\ completion' = Thrown("Stack deploy failed (the stack disappeared while we were deploying it)")
                    /\ UNCHANGED cloudFormationStack
               ELSE /\ cloudFormationStack' = finalStack
                    /\ completion' = CompletedNormally
       \/ /\ calls' = IssueOn(deployName, "waitForStackDeploy", "threw")
          /\ completion' = Thrown("waitForStackDeploy failed")
          /\ UNCHANGED cloudFormationStack
    /\ UNCHANGED << stage, attempts, executionId, op, digest, options, lookedUp, cfnStackTemplate,
                    stackParams, skipDeployResult, changeSet, bodyParameter, assetIndex,
                    monitor, result >>

(* deployStack, lines 406-414: await monitor?.stop() in the finally block,  *)
(* then the held error is thrown or the result returned.                    *)
StopMonitor ==
    /\ op = "deploy" /\ pc = "stopMonitor"
    /\ monitor' = MonitorStopped
    /\ IF completion.kind = "thrown"
       THEN pc' = "failed" /\ result' = completion
       ELSE Return("false", DeployedOutputs(cloudFormationStack), changeSet.StackId)
    /\ completion' = NoResult
    /\ UNCHANGED << stage, attempts, executionId, op, digest, options, cloudFormationStack, lookedUp,
                    cfnStackTemplate, stackParams, skipDeployResult, changeSet,
                    bodyParameter, assetIndex, calls >>

-----------------------------------------------------------------------------
(* destroyStack.                                                            *)

(* The early return of destroyStack never taken.                            *)
nothingToDestroyNever(currentStack) == FALSE

(* destroyStack, line 492: !currentStack.exists                             *)
nothingToDestroy(currentStack) == ~ currentStack.exists

(* The status test after the wait of destroyStack never failing.            *)
destroyDidNotCompleteNever(destroyedStack) == FALSE

(* destroyStack, line 500:                                                  *)
(* destroyedStack && destroyedStack.stackStatus.name !== 'DELETE_COMPLETE'  *)
destroyDidNotComplete(destroyedStack) ==
    destroyedStack # "undefined" /\ destroyedStack # "DELETE_COMPLETE"

(* destroyStack, lines 491-495.                                             *)
DestroyLookup ==
    /\ op = "destroy" /\ pc = "lookup"
    /\ calls' = IssueOn(deployName, "describeStacks", "")
    /\ \/ \E stack \in LookupResults :
            /\ cloudFormationStack' = stack
            /\ lookedUp' = stack
            /\ IF nothingToDestroy(stack)
               THEN Return("undefined", "none", "none") /\ UNCHANGED monitor
               ELSE /\ monitor' = MonitorStarted
                    /\ pc' = "deleteStack"
                    /\ UNCHANGED result
       \/ /\ Throw("describeStacks failed")
          /\ UNCHANGED << cloudFormationStack, lookedUp, monitor >>
    /\ UNCHANGED << completion, stage, attempts, executionId, op, digest, options, cfnStackTemplate, stackParams, skipDeployResult,
                    changeSet, bodyParameter, assetIndex >>

(* destroyStack, lines 502-504: the try block has completed, by the error   *)
(* given or normally.  Without a monitor the finally block awaits nothing   *)
(* and destroyStack ends at once; with one, it goes on to await stop().     *)
LeaveTry(outcome) ==
    IF options.quiet
    THEN /\ IF outcome.kind = "thrown"
            THEN pc' = "failed" /\ result' = outcome
            ELSE Return("undefined", "none", "none")
         /\ UNCHANGED completion
    ELSE /\ pc' = "stopMonitor"
         /\ completion' = outcome
         /\ UNCHANGED result

(* destroyStack, lines 497-498 and 502.                                     *)
DestroyDeleteStack ==
    /\ op = "destroy" /\ pc = "deleteStack"
    /\ calls' = IssueOn(deployName, "deleteStack", "")
    /\ \/ pc' = "waitForStackDelete" /\ UNCHANGED << result, completion >>
       \/ LeaveTry(Thrown("deleteStack failed"))
    /\ UNCHANGED << monitor, stage, attempts, executionId, op, digest, options, cloudFormationStack, lookedUp, cfnStackTemplate,
                    stackParams, skipDeployResult, changeSet, bodyParameter, assetIndex >>

(* destroyStack, lines 499-502.                                             *)
DestroyWait ==
    /\ op = "destroy" /\ pc = "waitForStackDelete"
    /\ \/ \E destroyedStack \in DeleteWaitResults :
            /\ calls' = IssueOn(deployName, "waitForStackDelete", destroyedStack)
            /\ IF destroyDidNotComplete(destroyedStack)
               THEN LeaveTry(ThrownNaming("Failed to destroy", destroyedStack))
               ELSE LeaveTry(CompletedNormally)
       \/ /\ calls' = IssueOn(deployName, "waitForStackDelete", "threw")
          /\ LeaveTry(Thrown("waitForStackDelete failed"))
    /\ UNCHANGED << monitor, stage, attempts, executionId, op, digest, options, cloudFormationStack,
                    lookedUp, cfnStackTemplate, stackParams, skipDeployResult, changeSet,
                    bodyParameter, assetIndex >>

(* destroyStack, lines 503-505: await monitor.stop() in the finally block,  *)
(* then the held error is thrown or destroyStack returns.                   *)
DestroyStopMonitor ==
    /\ op = "destroy" /\ pc = "stopMonitor"
    /\ monitor' = MonitorStopped
    /\ IF completion.kind = "thrown"
       THEN pc' = "failed" /\ result' = completion
       ELSE Return("undefined", "none", "none")
    /\ completion' = NoResult
    /\ UNCHANGED << stage, attempts, executionId, op, digest, options, cloudFormationStack, lookedUp,
                    cfnStackTemplate, stackParams, skipDeployResult, changeSet,
                    bodyParameter, assetIndex, calls >>

-----------------------------------------------------------------------------

Next ==
    \/ Lookup
    \/ DeleteFailedStack
    \/ WaitForStackDelete
    \/ Parameters
    \/ CanSkipDeploy
    \/ PublishChangedAssets
    \/ CloudformationClient
    \/ GetFunctionName
    \/ LambdaClient
    \/ UpdateFunctionCode
    \/ MakeBodyParameter
    \/ PublishAssets
    \/ CreateChangeSet
    \/ WaitForChangeSet
    \/ UpdateTerminationProtection
    \/ DeleteChangeSet
    \/ ExecuteChangeSet
    \/ WaitForStackDeploy
    \/ StopMonitor
    \/ DestroyLookup
    \/ DestroyDeleteStack
    \/ DestroyWait
    \/ DestroyStopMonitor

Spec == Init /\ [][Next]_vars

-----------------------------------------------------------------------------
(* The skip decision on its own: canSkipDeploy applied to every pair of a   *)
(* remote state and a desired state of the sets below.                      *)

(* Tag lists of the remote stack: CloudFormation keeps one value per key.   *)
RemoteTagLists == { tags \in SeqsUpTo(Tag, MaxTags) : UniqueKeys(tags) }
DesiredTagLists == SeqsUpTo(Tag, MaxTags)

SkipEntries ==
    { LambdaFunction(id, code, "absent", "asset.a1") :
        id \in LogicalIds, code \in {"bucket1/key1", "bucket1/key2"} }
    \cup { Bucket(id, "absent") : id \in LogicalIds }

SkipTemplates ==
    { [Resources |-> rs, Outputs |-> outputs] :
        rs \in { r \in SeqsUpTo(SkipEntries, MaxResources) : UniqueIds(r) },
        outputs \in OutputsSections }

SkipStatuses == {"CREATE_COMPLETE", "UPDATE_ROLLBACK_FAILED"}

SkipOptions(force, shortcut, tags, template, protection) ==
    Options(force, shortcut, "undefined", FALSE, tags, "p1", FALSE, FALSE,
            StackArtifact(template, protection, LARGE_TEMPLATE_SIZE_KB * 1024, NoText))

(* Every pair of tag lists, against the desired template or an older one.   *)
SkipInitTags ==
    /\ options \in { SkipOptions(force, FALSE, tags, DesiredTemplate, protection) :
                        force \in BOOLEAN, tags \in DesiredTagLists,
                        protection \in Optional }
    /\ cloudFormationStack \in
            {doesNotExist} \cup
            { ExistingStack(status, tags, protection, "out1", "p1") :
                status \in SkipStatuses, tags \in RemoteTagLists,
                protection \in {"true", "false"} }
    /\ cfnStackTemplate \in {DesiredTemplate, Reversed(DesiredTemplate)}

(* Every pair of templates, with equal or different tags.                   *)
SkipInitTemplates ==
    /\ options \in { SkipOptions(force, shortcut, << >>, template, protection) :
                        force \in BOOLEAN, shortcut \in BOOLEAN,
                        template \in SkipTemplates, protection \in {"undefined", "true"} }
    /\ cloudFormationStack \in
            {doesNotExist} \cup
            { ExistingStack(status, tags, "false", "out1", "p1") :
                status \in SkipStatuses, tags \in OrchestrationTags }
    /\ cfnStackTemplate \in SkipTemplates

(* The synthesized templates of the fast-path runs: a function, alone or    *)
(* with a second function, the CDK metadata resource or a bucket.           *)
FastDesiredTemplates ==
    { [Resources |-> << first >> \o rest, Outputs |-> "outputsA"] :
        first \in { LambdaFunction("Fn1", code, extra, metadata) :
                        code \in {"bucket1/key2", "bucket1/", "sub/key2", "ref/key2"},
                        extra \in {"absent", "number:60", "boolean:true",
                                   "string:index.handler", "object:{Variables}"},
                        metadata \in MetadataValues },
        rest \in { << >>, << Bucket("Fn2", "absent") >> }
                 \cup { << LambdaFunction("Fn2", "bucket1/key2", "absent", metadata) >> :
                            metadata \in AssetPaths }
                 \cup { << CDKMetadata("CDKMetadata", "string:modules-v2", metadata) >> :
                            metadata \in {"noMetadata", "noAssetPath"} } }

(* The value a property had in the version deployed before.                 *)
PreviousExtra(extra) ==
    CASE extra = "number:60" -> "number:30"
      [] extra = "boolean:true" -> "boolean:false"
      [] extra = "string:index.handler" -> "string:main.handler"
      [] extra = "string:modules-v2" -> "string:modules-v1"
      [] extra = "object:{Variables}" -> "object:{}"
      [] OTHER -> extra

(* What the deployed version of a resource may have been: the same, with    *)
(* older code, with the older value of its other property, or with both.    *)
PreviousVersions(r) ==
    IF r.Type = "AWS::Lambda::Function"
    THEN { [r EXCEPT !.Code = code, !.Extra = extra] :
             code \in {r.Code, "bucket1/key1"}, extra \in {r.Extra, PreviousExtra(r.Extra)} }
    ELSE IF r.Type = "AWS::CDK::Metadata"
    THEN { r, [r EXCEPT !.Extra = PreviousExtra(r.Extra)] }
    ELSE { r, [r EXCEPT !.Extra = "string:main.handler"] }

RECURSIVE PreviousResources(_)
PreviousResources(resources) ==
    IF resources = << >> THEN { << >> }
    ELSE { << first >> \o rest : first \in PreviousVersions(Head(resources)),
                                 rest \in PreviousResources(Tail(resources)) }

(* The templates the remote stack may hold against a desired one.           *)
PreviousTemplates(desired) ==
    { [Resources |-> rs, Outputs |-> desired.Outputs] :
        rs \in PreviousResources(desired.Resources) }

-----------------------------------------------------------------------------
(* deployStack with --shortcut: every fast-path template deployed over a    *)
(* stack that holds a previous version of it.                               *)

(* An entry of the stack parameters that names an asset: its key, as the    *)
(* texts it is made of, and its value.                                      *)
AssetParameter(assetId, property, value) ==
    [key |-> << "AssetParameters", assetId, property >>, value |-> value]

LegacyAsset(assetId) ==
    << AssetParameter(assetId, "S3Bucket", << "legacy-bucket" >>),
       AssetParameter(assetId, "S3VersionKey", << "legacy/", "||", assetId, ".zip" >>),
       AssetParameter(assetId, "ArtifactHash", << "hash" >>) >>

(* The asset parameters the template declares and the call supplies: none,  *)
(* those of the first asset, its bucket alone, or those of both assets.     *)
AssetParameterInputs ==
    { << >>,
      LegacyAsset("a1"),
      << AssetParameter("a1", "S3Bucket", << "legacy-bucket" >>) >>,
      LegacyAsset("a1") \o LegacyAsset("a2") }

(* The runs are named in every way without asset parameters, and given     *)
(* every set of asset parameters under the artifact's name.                 *)
NamesAndAssetParameters ==
    { [deployName |-> name, assetParameters |-> << >>] : name \in DeployNames }
        \cup { [deployName |-> "undefined", assetParameters |-> assetParameters] :
                    assetParameters \in AssetParameterInputs }

FastOptions ==
    { [Options(FALSE, TRUE, "undefined", FALSE, << >>, parameters, FALSE, FALSE,
               StackArtifact(template, "undefined", LARGE_TEMPLATE_SIZE_KB * 1024, NoText))
          EXCEPT !.deployName = named.deployName,
                 !.assetParameters = named.assetParameters] :
        parameters \in ParameterInputs, template \in FastDesiredTemplates,
        named \in NamesAndAssetParameters }

FastInit ==
    /\ op = "deploy"
    /\ options \in FastOptions
    /\ pc = "lookup"
    /\ cloudFormationStack = NoStack
    /\ lookedUp = NoStack
    /\ cfnStackTemplate = NoTemplate
    /\ stackParams = NoStackParams
    /\ skipDeployResult = NoSkipDeployResult
    /\ changeSet = NoChangeSet
    /\ bodyParameter = NoBodyParameter
    /\ executionId = "none"
    /\ stage = NoStage
    /\ completion = NoResult
    /\ digest = NoDigests
    /\ attempts = NoAttempts
    /\ assetIndex = 1
    /\ calls = << >>
    /\ monitor = [started |-> 0, stopped |-> 0]
    /\ result = NoResult

FastCanSkipDeploy == CanSkipDeployAgainst(PreviousTemplates(options.stack.template))

FastNext ==
    \/ Lookup
    \/ DeleteFailedStack
    \/ WaitForStackDelete
    \/ Parameters
    \/ FastCanSkipDeploy
    \/ PublishChangedAssets
    \/ CloudformationClient
    \/ GetFunctionName
    \/ LambdaClient
    \/ UpdateFunctionCode

FastSpec == FastInit /\ [][FastNext]_vars

-----------------------------------------------------------------------------
(* The fast path requested for every desired template against every         *)
(* previous version of it, on a healthy stack.                               *)
SkipInitFastPath ==
    /\ options \in { SkipOptions(FALSE, TRUE, << >>, template, "undefined") :
                        template \in FastDesiredTemplates }
    /\ cloudFormationStack = ExistingStack("CREATE_COMPLETE", << >>, "false", "out1", "p1")
    /\ cfnStackTemplate \in PreviousTemplates(options.stack.template)

SkipInit ==
    /\ op = "skip"
    /\ pc = "apply"
    /\ SkipInitTags \/ SkipInitTemplates \/ SkipInitFastPath
    /\ stackParams \in { [value |-> "p1", hasChanges |-> changes, values |-> << >>] :
                            changes \in BOOLEAN }
    /\ lookedUp = cloudFormationStack
    /\ skipDeployResult = NoSkipDeployResult
    /\ changeSet = NoChangeSet
    /\ bodyParameter = NoBodyParameter
    /\ executionId = "none"
    /\ stage = NoStage
    /\ completion = NoResult
    /\ digest = NoDigests
    /\ attempts = NoAttempts
    /\ assetIndex = 1
    /\ calls = << >>
    /\ monitor = [started |-> 0, stopped |-> 0]
    /\ result = NoResult

(* canSkipDeploy, lines 535-619, on its own.  Past the forced and the       *)
(* existence tests it asks the stack for its template (line 557), which     *)
(* answers cfnStackTemplate or rejects; the decision follows the answer.    *)
ApplyCanSkipDeploy ==
    /\ op = "skip" /\ pc = "apply"
    /\ calls' = IF FetchesTemplate
                THEN IssueOn(deployName, "getTemplate", "")
                ELSE calls
    /\ \/ /\ skipDeployResult' = canSkipDeploy(options, cloudFormationStack,
                                                cfnStackTemplate, stackParams.hasChanges,
                                                options.shortcut)
          /\ pc' = "applied"
          /\ UNCHANGED result
       \/ /\ FetchesTemplate
          /\ Throw("getTemplate failed")
          /\ UNCHANGED skipDeployResult
    /\ UNCHANGED << completion, stage, attempts, executionId, op, digest, options, cloudFormationStack,
                    lookedUp, cfnStackTemplate, stackParams, changeSet, bodyParameter,
                    assetIndex, monitor >>

SkipNext == ApplyCanSkipDeploy

SkipSpec == SkipInit /\ [][SkipNext]_vars

-----------------------------------------------------------------------------
(* makeBodyParameter on its own, attempt after attempt: every attempt draws *)
(* its own execution id and is given a stack artifact and a toolkit.        *)

StackIds == {"Stack", "OtherStack"}

BodyTemplates == RemoteTemplates

TemplateLengths ==
    { LARGE_TEMPLATE_SIZE_KB * 1024 - 1, LARGE_TEMPLATE_SIZE_KB * 1024,
      LARGE_TEMPLATE_SIZE_KB * 1024 + 1 }

(* The serialized templates of the attempts.                                *)
BodyTexts == { toYAML(template) : template \in BodyTemplates }

(* A hash that gives every text a digest of its own.                        *)
CollisionFree == [t \in BodyTexts |-> << "sha", t >>]

(* The hashes the attempts are run with: the collision-free one, and every  *)
(* one that gives one text the digest of another.                           *)
HashFunctions ==
    {CollisionFree}
        \cup { [CollisionFree EXCEPT ![t] = CollisionFree[u]] : t, u \in BodyTexts }

(* The stacks of the attempts: every template under every stack id without *)
(* an uploaded template, and one template under every uploaded url; each    *)
(* at every length, with and without a toolkit.                             *)
BodyOptions ==
    { Options(FALSE, FALSE, "undefined", FALSE, << >>, "undefined", FALSE, found,
              [StackArtifact(template, "undefined", length, NoText) EXCEPT !.id = id]) :
        found \in BOOLEAN, template \in BodyTemplates, length \in TemplateLengths,
        id \in StackIds }
    \cup
    { Options(FALSE, FALSE, "undefined", FALSE, << >>, "undefined", FALSE, found,
              StackArtifact(DesiredTemplate, "undefined", length, url)) :
        found \in BOOLEAN, length \in TemplateLengths, url \in TemplateUrls }

BodyInit ==
    /\ op = "body"
    /\ pc = "make"
    /\ options \in BodyOptions
    /\ cloudFormationStack = NoStack
    /\ lookedUp = NoStack
    /\ cfnStackTemplate = NoTemplate
    /\ stackParams = NoStackParams
    /\ skipDeployResult = NoSkipDeployResult
    /\ changeSet = NoChangeSet
    /\ bodyParameter = NoBodyParameter
    /\ executionId = "none"
    /\ stage = NoStage
    /\ completion = NoResult
    /\ digest \in HashFunctions
    /\ attempts = NoAttempts
    /\ assetIndex = 1
    /\ calls = << >>
    /\ monitor = [started |-> 0, stopped |-> 0]
    /\ result = NoResult

(* The first attempt: lines 346-347 of deployStack.                         *)
FirstAttempt ==
    /\ op = "body" /\ pc = "make"
    /\ executionId' \in ExecutionIds
    /\ bodyParameter' = makeBodyParameter(options.stack, options.toolkitInfo)
    /\ pc' = "made"
    /\ UNCHANGED << completion, stage, attempts, op, digest, options, cloudFormationStack, lookedUp, cfnStackTemplate,
                    stackParams, skipDeployResult, changeSet, assetIndex, calls,
                    monitor, result >>

(* A later attempt, for the same stack artifact or another one.             *)
NextAttempt ==
    /\ op = "body" /\ pc = "made"
    /\ options' \in BodyOptions
    /\ executionId' \in ExecutionIds
    /\ bodyParameter' = makeBodyParameter(options'.stack, options'.toolkitInfo)
    /\ UNCHANGED << completion, stage, attempts, op, digest, pc, cloudFormationStack, lookedUp, cfnStackTemplate,
                    stackParams, skipDeployResult, changeSet, assetIndex, calls,
                    monitor, result >>

BodyNext == FirstAttempt \/ NextAttempt

BodySpec == BodyInit /\ [][BodyNext]_vars

-----------------------------------------------------------------------------
(* Properties.                                                              *)

MutatingCalls == {"deleteStack", "publishAssets", "createChangeSet",
                  "updateTerminationProtection", "deleteChangeSet", "executeChangeSet",
                  "updateFunctionCode"}

CallNames == { calls[i].name : i \in 1..Len(calls) }

(* canSkipDeploy has returned a decision.                                   *)
Decided == skipDeployResult.lambdaOnly # "none" /\ ~ skipDeployResult.threw

(* The same key+value pairs, in any order, in lists of the same length.     *)
SameTags(a, b) ==
    /\ Len(a) = Len(b)
    /\ { << a[i].Key, a[i].Value >> : i \in 1..Len(a) }
         = { << b[i].Key, b[i].Value >> : i \in 1..Len(b) }

(* The same resources under the same logical ids and the same outputs,      *)
(* whatever the order of the keys.                                          *)
StructurallyEqual(t1, t2) ==
    /\ t1.Outputs = t2.Outputs
    /\ Ids(t1) = Ids(t2)
    /\ \A id \in Ids(t1) : ResourceOf(t1, id) = ResourceOf(t2, id)

SameProtection ==
    Truthy(options.stack.terminationProtection)
        = Truthy(cloudFormationStack.terminationProtection)

(* C1: when the skip decision reports hasChanges=false, deployStack has     *)
(* issued no mutating remote call and has returned noOp=true with the       *)
(* outputs and the stack id of the stack it looked up.                      *)
C1_SkipMeansNoMutation ==
    (op = "deploy" /\ Decided /\ ~ skipDeployResult.hasChanges)
        => /\ CallNames \cap MutatingCalls = {}
           /\ pc = "done"
           /\ result.kind = "returned"
           /\ result.noOp = "true"
           /\ result.outputs = lookedUp.outputs
           /\ lookedUp.exists
           /\ result.stackArn = lookedUp.stackId

C1_Witness ==
    /\ op = "deploy" /\ Decided /\ ~ skipDeployResult.hasChanges
    /\ pc = "done" /\ result.noOp = "true" /\ lookedUp.exists
    /\ "getTemplate" \in CallNames

(* The outputs of the remote stack before the change-set attempt: those of  *)
(* the stack looked up, or none once a failed creation was cleaned up.      *)
PreAttemptOutputs ==
    IF isCreationFailure(lookedUp.stackStatus) THEN "{}" ELSE lookedUp.outputs

(* C2: a change-set that finished computing with an empty change list is    *)
(* never executed; when deployStack returns after it, deleteChangeSet was   *)
(* called and the result is noOp=true with the pre-attempt outputs.         *)
C2_EmptyChangeSetDeletedNotExecuted ==
    (op = "deploy" /\ changeSet.changes = 0)
        => /\ "executeChangeSet" \notin CallNames
           /\ pc \notin {"executeChangeSet", "waitForStackDeploy", "stopMonitor"}
           /\ result.kind = "returned"
                => /\ "deleteChangeSet" \in CallNames
                   /\ result.noOp = "true"
                   /\ result.outputs = PreAttemptOutputs

C2_Witness ==
    /\ op = "deploy" /\ changeSet.changes = 0 /\ result.kind = "returned"
    /\ calls[Len(calls)].name = "deleteChangeSet"
    /\ lookedUp.exists /\ result.outputs = "out1"

(* C3: a monitor is stopped at most once and only after it was started, and *)
(* when deployStack or destroyStack has returned or thrown every started    *)
(* monitor has been stopped exactly once.                                   *)
C3_MonitorStoppedOnEveryExit ==
    /\ monitor.stopped <= monitor.started
    /\ monitor.started <= 1
    /\ pc \in {"done", "failed"} => monitor.stopped = monitor.started

C3_Witness ==
    /\ pc = "failed" /\ monitor.started = 1 /\ monitor.stopped = 1
    /\ calls[Len(calls)].name \in {"deleteStack", "waitForStackDelete", "waitForStackDeploy"}

(* Positions of deployStack past the failed-creation cleanup and before the *)
(* final stack is read.                                                     *)
AfterCleanup ==
    {"parameters", "canSkipDeploy", "publishChangedAssets", "getFunctionName",
     "describeStackResources", "shortcutLambdaFunction", "updateFunctionCode",
     "makeBodyParameter", "publishAssets", "createChangeSet",
     "waitForChangeSet", "updateTerminationProtection", "deleteChangeSet",
     "executeChangeSet", "waitForStackDeploy"}

(* C4: when the stack looked up is in a creation-failure status, the first  *)
(* call after the lookup is deleteStack, the next is the wait for the       *)
(* deletion, and from then on deployStack holds the same snapshot as for a  *)
(* stack that does not exist: the skip decision reports hasChanges=true and *)
(* every change-set is created with ChangeSetType=CREATE.                   *)
C4_FailedCreationIsDeletedThenCreated ==
    (op = "deploy" /\ isCreationFailure(lookedUp.stackStatus))
        => /\ Len(calls) >= 2 => calls[2].name = "deleteStack"
           /\ Len(calls) >= 3 => calls[3].name = "waitForStackDelete"
           /\ pc \in AfterCleanup
                => /\ cloudFormationStack = doesNotExist
                   /\ calls[3].arg \in {"undefined", "DELETE_COMPLETE"}
           /\ Decided => skipDeployResult.hasChanges
           /\ \A i \in 1..Len(calls) :
                calls[i].name = "createChangeSet" => (i > 3 /\ calls[i].arg = "CREATE")

C4_Witness ==
    /\ op = "deploy" /\ isCreationFailure(lookedUp.stackStatus)
    /\ Decided /\ skipDeployResult.hasChanges /\ ~ options.force
    /\ calls[Len(calls)].name = "createChangeSet" /\ calls[Len(calls)].arg = "CREATE"

(* C5: when the wait after the cleanup delete returns the stack in a state  *)
(* other than DELETE_COMPLETE, deployStack has thrown and that wait is its  *)
(* last remote call.                                                        *)
C5_FailedCleanupIsFatal ==
    \A i \in 1..Len(calls) :
        (op = "deploy" /\ calls[i].name = "waitForStackDelete"
            /\ calls[i].arg \notin {"undefined", "DELETE_COMPLETE", "threw"})
        => /\ pc = "failed"
           /\ result.kind = "thrown"
           /\ i = Len(calls)
           /\ CallNames \cap {"publishAssets", "createChangeSet", "executeChangeSet"} = {}

C5_Witness ==
    /\ op = "deploy" /\ pc = "failed" /\ Len(calls) = 3
    /\ calls[3].name = "waitForStackDelete" /\ calls[3].arg = "DELETE_FAILED"

(* C6: a forced deployment always yields hasChanges=true.                   *)
C6_ForceMeansChanges ==
    (op = "skip" /\ pc = "applied" /\ options.force)
        => (~ skipDeployResult.threw /\ skipDeployResult.hasChanges)

C6_Witness ==
    /\ op = "skip" /\ pc = "applied" /\ options.force
    /\ cloudFormationStack.exists /\ ~ isFailure(cloudFormationStack.stackStatus)
    /\ cfnStackTemplate = options.stack.template
    /\ cloudFormationStack.tags = options.tags /\ Len(options.tags) = MaxTags
    /\ SameProtection /\ ~ stackParams.hasChanges
    /\ skipDeployResult.hasChanges

(* C7: a remote stack that does not exist always yields hasChanges=true.    *)
C7_MissingStackMeansChanges ==
    (op = "skip" /\ pc = "applied" /\ ~ cloudFormationStack.exists)
        => (~ skipDeployResult.threw /\ skipDeployResult.hasChanges)

C7_Witness ==
    /\ op = "skip" /\ pc = "applied" /\ ~ cloudFormationStack.exists
    /\ ~ options.force /\ options.tags = << >> /\ ~ stackParams.hasChanges
    /\ cfnStackTemplate = options.stack.template
    /\ ~ Truthy(options.stack.terminationProtection)
    /\ skipDeployResult.hasChanges

(* C8: identical templates, the same tags, the same termination-protection  *)
(* flag, no parameter changes, no forcing, and an existing stack that is    *)
(* not in a failure status yield hasChanges=false.                          *)
C8_NothingChangedMeansSkip ==
    (/\ op = "skip" /\ pc = "applied"
     /\ ~ options.force
     /\ cloudFormationStack.exists
     /\ cfnStackTemplate = options.stack.template
     /\ SameTags(cloudFormationStack.tags, options.tags)
     /\ SameProtection
     /\ ~ stackParams.hasChanges
     /\ ~ isFailure(cloudFormationStack.stackStatus))
        => (~ skipDeployResult.threw /\ ~ skipDeployResult.hasChanges)

C8_Witness ==
    /\ op = "skip" /\ pc = "applied" /\ ~ options.force
    /\ cloudFormationStack.exists
    /\ cfnStackTemplate = options.stack.template
    /\ Len(options.tags) = 2 /\ cloudFormationStack.tags = options.tags
    /\ options.stack.terminationProtection = "undefined"
    /\ cloudFormationStack.terminationProtection = "false"
    /\ ~ stackParams.hasChanges
    /\ ~ isFailure(cloudFormationStack.stackStatus)
    /\ ~ skipDeployResult.hasChanges

(* C9: compareTags(remote tags, desired tags) is true exactly when the two  *)
(* lists have the same length and the same key+value pairs in any order;    *)
(* otherwise, for an existing stack with an unchanged template and no       *)
(* forcing, the decision is hasChanges=true.                                *)
C9_TagsComparedAsSets ==
    op = "skip"
        => /\ compareTags(cloudFormationStack.tags, options.tags)
                = SameTags(cloudFormationStack.tags, options.tags)
           /\ (/\ pc = "applied" /\ ~ options.force /\ cloudFormationStack.exists
               /\ ~ templateHasChanged(options.stack.template, cfnStackTemplate)
               /\ ~ SameTags(cloudFormationStack.tags, options.tags))
                => skipDeployResult.hasChanges

C9_Witness ==
    /\ op = "skip" /\ pc = "applied" /\ ~ options.force /\ cloudFormationStack.exists
    /\ cfnStackTemplate = options.stack.template
    /\ Len(options.tags) = 2
    /\ cloudFormationStack.tags = << options.tags[2], options.tags[1] >>
    /\ cloudFormationStack.tags # options.tags
    /\ SameProtection /\ ~ stackParams.hasChanges
    /\ ~ isFailure(cloudFormationStack.stackStatus)
    /\ ~ skipDeployResult.hasChanges

(* C10: templates that hold the same keys and values, whatever the order of *)
(* their keys, do not by themselves produce hasChanges=true.                *)
C10_TemplatesComparedStructurally ==
    (/\ op = "skip" /\ pc = "applied"
     /\ ~ options.force
     /\ cloudFormationStack.exists
     /\ StructurallyEqual(options.stack.template, cfnStackTemplate)
     /\ SameTags(cloudFormationStack.tags, options.tags)
     /\ SameProtection
     /\ ~ stackParams.hasChanges
     /\ ~ isFailure(cloudFormationStack.stackStatus))
        => ~ skipDeployResult.hasChanges

(* C11: for an existing stack in a failure status the decision reports      *)
(* hasChanges=true whenever canSkipDeploy returns, and it does return with  *)
(* hasChanges=true when template, tags, termination protection and          *)
(* parameters all equal the desired state and nothing is forced.            *)
C11_FailedStackMeansChanges ==
    (op = "skip" /\ pc = "applied" /\ cloudFormationStack.exists
        /\ isFailure(cloudFormationStack.stackStatus))
        => /\ ~ skipDeployResult.threw => skipDeployResult.hasChanges
           /\ (/\ cfnStackTemplate = options.stack.template
               /\ SameTags(cloudFormationStack.tags, options.tags)
               /\ SameProtection
               /\ ~ stackParams.hasChanges)
                => (~ skipDeployResult.threw /\ skipDeployResult.hasChanges)

C11_Witness ==
    /\ op = "skip" /\ pc = "applied" /\ ~ options.force
    /\ cloudFormationStack.exists /\ isFailure(cloudFormationStack.stackStatus)
    /\ cfnStackTemplate = options.stack.template
    /\ Len(options.tags) = 1 /\ cloudFormationStack.tags = options.tags
    /\ SameProtection /\ ~ stackParams.hasChanges
    /\ skipDeployResult.hasChanges /\ ~ skipDeployResult.threw

(* The change-set calls recorded so far.                                    *)
CreateChangeSetCalls == { i \in 1..Len(calls) : calls[i].name = "createChangeSet" }

(* The stack deployStack looked up holds nothing to update: it does not     *)
(* exist, its failed creation was cleaned up, or it is still under review.  *)
NothingToUpdate ==
    \/ ~ lookedUp.exists
    \/ isCreationFailure(lookedUp.stackStatus)
    \/ lookedUp.stackStatus = "REVIEW_IN_PROGRESS"

(* C12: every createChangeSet call of deployStack carries ChangeSetType     *)
(* CREATE exactly when the remote stack does not exist (also after the      *)
(* failed-creation cleanup) or is in REVIEW_IN_PROGRESS, and UPDATE in      *)
(* every other case.                                                        *)
C12_ChangeSetTypeFollowsRemoteStack ==
    op = "deploy" =>
        \A i \in CreateChangeSetCalls :
            /\ calls[i].arg \in {"CREATE", "UPDATE"}
            /\ calls[i].arg = "CREATE" <=> NothingToUpdate

C12_Witness ==
    /\ op = "deploy" /\ CreateChangeSetCalls # {}
    /\ lookedUp.exists /\ lookedUp.stackStatus = "REVIEW_IN_PROGRESS"
    /\ calls[Len(calls)].name = "createChangeSet" /\ calls[Len(calls)].arg = "CREATE"

(* The termination-protection flag of the remote state the change-set is    *)
(* made against, and whether the desired flag (absent is false) differs.    *)
RemoteProtectionBeforeAttempt ==
    IF isCreationFailure(lookedUp.stackStatus)
    THEN doesNotExist.terminationProtection
    ELSE lookedUp.terminationProtection

ProtectionDiffers ==
    (RemoteProtectionBeforeAttempt = "true") # (options.stack.terminationProtection = "true")

UpdateProtectionCalls ==
    { i \in 1..Len(calls) : calls[i].name = "updateTerminationProtection" }

(* C13: deployStack calls updateTerminationProtection only when the desired *)
(* flag differs from the flag of the remote stack, at most once, and once   *)
(* the change-set is computed and the step is passed it has been called     *)
(* exactly when the flags differ.                                           *)
C13_ProtectionUpdatedOnlyOnMismatch ==
    op = "deploy" =>
        /\ UpdateProtectionCalls # {} => ProtectionDiffers
        /\ Cardinality(UpdateProtectionCalls) <= 1
        /\ (changeSet.changes >= 0 /\ pc # "updateTerminationProtection")
                => (UpdateProtectionCalls # {} <=> ProtectionDiffers)

C13_Witness ==
    /\ op = "deploy" /\ changeSet.changes >= 0 /\ pc = "done"
    /\ lookedUp.exists /\ lookedUp.terminationProtection = "false"
    /\ options.stack.terminationProtection = "undefined"
    /\ UpdateProtectionCalls = {}
    /\ "createChangeSet" \in CallNames

(* C14: with execute=false and a change-set that lists changes, deployStack *)
(* ends without executeChangeSet, deleteChangeSet or a wait for the stack,  *)
(* starts no monitor, and when it returns the result is noOp=false with the *)
(* outputs of the remote state before execution.                            *)
C14_NoExecuteLeavesChangeSet ==
    (op = "deploy" /\ options.execute = "false" /\ changeSet.changes > 0)
        => /\ CallNames \cap {"executeChangeSet", "deleteChangeSet",
                              "waitForStackDeploy"} = {}
           /\ monitor.started = 0
           /\ pc \in {"updateTerminationProtection", "done", "failed"}
           /\ pc = "failed" => calls[Len(calls)].name = "updateTerminationProtection"
           /\ pc = "done" => /\ result.kind = "returned"
                             /\ result.noOp = "false"
                             /\ result.outputs = PreAttemptOutputs
                             /\ result.stackArn = changeSet.StackId

C14_Witness ==
    /\ op = "deploy" /\ options.execute = "false" /\ changeSet.changes > 0
    /\ pc = "done" /\ result.noOp = "false"
    /\ lookedUp.exists /\ result.outputs = "out1" /\ ~ options.quiet
    /\ calls[Len(calls)].name = "waitForChangeSet"

(* C15: when the wait after executeChangeSet answers that the stack no      *)
(* longer exists, deployStack issues no further call and returns no result: *)
(* once the monitor has been stopped it has thrown the error that says the  *)
(* stack disappeared.                                                       *)
C15_VanishedStackIsFatal ==
    \A i \in 1..Len(calls) :
        (op = "deploy" /\ calls[i].name = "waitForStackDeploy"
            /\ calls[i].arg = "undefined")
        => /\ i = Len(calls)
           /\ result.kind # "returned"
           /\ pc \in {"stopMonitor", "failed"}
           /\ pc = "failed"
                => /\ result.kind = "thrown"
                   /\ result.error
                        = "Stack deploy failed (the stack disappeared while we were deploying it)"

C15_Witness ==
    /\ op = "deploy" /\ pc = "failed"
    /\ "executeChangeSet" \in CallNames
    /\ calls[Len(calls)].name = "waitForStackDeploy"
    /\ calls[Len(calls)].arg = "undefined"
    /\ monitor.started = 1 /\ monitor.stopped = 1

(* C16: when the stack destroyStack looked up does not exist, the lookup is *)
(* its only remote call, no monitor was started and it has returned.        *)
C16_DestroyOfMissingStackIsNoOp ==
    (op = "destroy" /\ lookedUp = doesNotExist)
        => /\ "deleteStack" \notin CallNames
           /\ Len(calls) = 1
           /\ monitor.started = 0
           /\ pc = "done"
           /\ result.kind = "returned"

C16_Witness ==
    /\ op = "destroy" /\ lookedUp = doesNotExist /\ ~ options.quiet
    /\ pc = "done" /\ result.kind = "returned" /\ Len(calls) = 1

(* C17: when the wait of destroyStack answers a stack in a state other than *)
(* DELETE_COMPLETE, destroyStack returns nothing and, once the monitor has  *)
(* been stopped, has thrown an error that names that state;                 *)
(* destroyStack returns for an existing stack only after the wait answered  *)
(* that the stack is gone or is in DELETE_COMPLETE.                         *)
C17_DestroyFailsUnlessDeleted ==
    op = "destroy" =>
        /\ \A i \in 1..Len(calls) :
                (calls[i].name = "waitForStackDelete"
                    /\ calls[i].arg \notin {"undefined", "DELETE_COMPLETE", "threw"})
                => /\ result.kind # "returned"
                   /\ pc \in {"stopMonitor", "failed"}
                   /\ pc = "failed"
                        => /\ result.kind = "thrown"
                           /\ result.error = "Failed to destroy"
                           /\ result.status = calls[i].arg
        /\ (result.kind = "returned" /\ lookedUp.exists)
                => /\ calls[Len(calls)].name = "waitForStackDelete"
                   /\ calls[Len(calls)].arg \in {"undefined", "DELETE_COMPLETE"}
                   /\ "deleteStack" \in CallNames

C17_Witness ==
    /\ op = "destroy" /\ lookedUp.exists /\ pc = "failed"
    /\ calls[Len(calls)].name = "waitForStackDelete"
    /\ calls[Len(calls)].arg = "DELETE_FAILED"
    /\ result.status = "DELETE_FAILED"

(* The stack of the attempt carries no uploaded template.                   *)
NotUploaded == options.stack.stackTemplateAssetObjectUrl = NoText

(* C18: for a stack without an uploaded template, makeBodyParameter returns *)
(* the serialized template as TemplateBody exactly when its length is at    *)
(* most 50*1024; for a longer one it throws when no toolkit is found, and   *)
(* otherwise returns a TemplateURL and no TemplateBody.                     *)
C18_InlineUpToFiftyKiB ==
    (op = "body" /\ pc = "made" /\ NotUploaded)
        => /\ bodyParameter.TemplateBody # NoText
                <=> options.stack.templateLength <= 50 * 1024
           /\ options.stack.templateLength <= 50 * 1024
                => /\ ~ bodyParameter.threw
                   /\ bodyParameter.TemplateBody = toYAML(options.stack.template)
                   /\ bodyParameter.TemplateURL = NoText
           /\ (options.stack.templateLength > 50 * 1024 /\ ~ options.toolkitInfo.found)
                => /\ bodyParameter.threw
                   /\ bodyParameter.error
                        = "Template too large to deploy (\"cdk bootstrap\" is required)"
           /\ (options.stack.templateLength > 50 * 1024 /\ options.toolkitInfo.found)
                => /\ ~ bodyParameter.threw
                   /\ bodyParameter.TemplateURL # NoText
                   /\ bodyParameter.TemplateBody = NoText

C18_Witness ==
    /\ op = "body" /\ pc = "made" /\ NotUploaded
    /\ options.stack.templateLength = 50 * 1024
    /\ ~ options.toolkitInfo.found
    /\ bodyParameter.TemplateBody = toYAML(options.stack.template)

(* The uploaded template url of the stack holds the partition placeholder.  *)
NeedsPartition == Contains(options.stack.stackTemplateAssetObjectUrl, "${AWS::Partition}")

(* C19: for a stack whose uploaded template url holds the partition         *)
(* placeholder deployStack never calls createChangeSet, and once it has     *)
(* prepared the body parameter it has thrown; no createChangeSet is called  *)
(* with a TemplateURL that holds the stand-in of the partition.             *)
C19_PartitionPlaceholderIsFatal ==
    op = "deploy" =>
        /\ NeedsPartition
             => /\ "createChangeSet" \notin CallNames
                /\ pc \notin {"publishAssets", "createChangeSet", "waitForChangeSet",
                               "updateTerminationProtection", "deleteChangeSet",
                               "executeChangeSet", "waitForStackDeploy"}
                /\ executionId # "none"
                     => /\ pc = "failed"
                        /\ result.kind = "thrown"
                        /\ result.error
                             = "Cannot use '${AWS::Partition}' in the 'stackTemplateAssetObjectUrl' field"
        /\ "createChangeSet" \in CallNames
             => /\ ~ Contains(bodyParameter.TemplateURL, doNotUseMarker)
                /\ ~ Contains(bodyParameter.TemplateURL, "${AWS::Partition}")

C19_Witness ==
    /\ op = "deploy" /\ NeedsPartition /\ executionId # "none"
    /\ pc = "failed" /\ bodyParameter.threw
    /\ calls[Len(calls)].name \notin {"publishAssets", "createChangeSet"}

(* The attempt stages its template: it is not uploaded already, it is too   *)
(* long to be inlined, and a toolkit is found.                              *)
Staged ==
    /\ NotUploaded
    /\ options.stack.templateLength > LARGE_TEMPLATE_SIZE_KB * 1024
    /\ options.toolkitInfo.found

(* The digest of the template the attempt stages.                           *)
StagedDigest == contentHash(toYAML(options.stack.template))

-----------------------------------------------------------------------------
(* The fast-path classification (canSkipDeploy with isShortcut).            *)

(* The classification ran: the fast path is requested and canSkipDeploy     *)
(* got as far as the template diff.                                         *)
Classified ==
    /\ op = "skip" /\ pc = "applied"
    /\ options.shortcut /\ ~ options.force
    /\ cloudFormationStack.exists
    /\ JSONstringify(options.stack.template) # JSONstringify(cfnStackTemplate)

TemplateDifferences == diffTemplate(cfnStackTemplate, options.stack.template)

ModifiedFunction(change) ==
    /\ change.oldValue.Type = "AWS::Lambda::Function"
    /\ change.newValue.Type = "AWS::Lambda::Function"

(* Only the code location of a function changed.                            *)
CodeLocationChange(change) ==
    /\ ModifiedFunction(change)
    /\ change.oldValue.Code # change.newValue.Code
    /\ change.newValue.Code # "absent"
    /\ change.oldValue.Extra = change.newValue.Extra

(* A property other than the code location changed on a function.           *)
OtherPropertyChange(change) ==
    /\ ModifiedFunction(change)
    /\ change.oldValue.Extra # change.newValue.Extra

MetadataResourceChange(change) == change.newValue.Type = "AWS::CDK::Metadata"

HasAssetPath(resource) == resource.Metadata \in AssetPaths

(* C22: with the fast path requested, a diff that holds only a code-location *)
(* change on one Lambda function yields lambdaOnly=true with the asset path *)
(* mapped to the logical id of the function when the function carries the   *)
(* asset-path annotation, and yields lambdaOnly=false without an error when *)
(* the annotation is missing.                                               *)
C22_CodeChangeClassifiedByAnnotation ==
    (/\ Classified
     /\ Len(TemplateDifferences) = 1
     /\ CodeLocationChange(TemplateDifferences[1]))
        => LET change == TemplateDifferences[1] IN
           /\ ~ skipDeployResult.threw
           /\ IF HasAssetPath(change.newValue)
              THEN /\ skipDeployResult.lambdaOnly = "true"
                   /\ skipDeployResult.modifiedAssetPaths =
                        << [assetPath |-> change.newValue.Metadata,
                            logicalId |-> change.logicalId] >>
              ELSE skipDeployResult.lambdaOnly = "false"

(* C23: with the fast path requested, a modification of a Lambda function   *)
(* that changes a property other than its code location, whatever the kind  *)
(* of the new value, makes the plan not eligible (lambdaOnly=false).        *)
C23_OtherPropertyChangeDisqualifies ==
    (/\ Classified
     /\ ~ skipDeployResult.threw
     /\ \E i \in 1..Len(TemplateDifferences) : OtherPropertyChange(TemplateDifferences[i]))
        => skipDeployResult.lambdaOnly = "false"

(* C24: with the fast path requested, a diff made of qualifying Lambda code *)
(* changes plus a difference on an AWS::CDK::Metadata resource is eligible: *)
(* no error is raised and lambdaOnly=true.                                  *)
C24_MetadataResourceChangeQualifies ==
    (/\ Classified
     /\ \E i \in 1..Len(TemplateDifferences) : MetadataResourceChange(TemplateDifferences[i])
     /\ \E i \in 1..Len(TemplateDifferences) : CodeLocationChange(TemplateDifferences[i])
     /\ \A i \in 1..Len(TemplateDifferences) :
            \/ MetadataResourceChange(TemplateDifferences[i])
            \/ /\ CodeLocationChange(TemplateDifferences[i])
               /\ HasAssetPath(TemplateDifferences[i].newValue))
        => /\ ~ skipDeployResult.threw
           /\ skipDeployResult.lambdaOnly = "true"

(* The functions whose code changed.                                        *)
ChangedFunctions ==
    { TemplateDifferences[i].logicalId : i \in
        { j \in 1..Len(TemplateDifferences) : CodeLocationChange(TemplateDifferences[j]) } }

MappedLogicalIds(modifiedAssetPaths) ==
    { modifiedAssetPaths[i].logicalId : i \in 1..Len(modifiedAssetPaths) }

(* C25: when the classification is eligible, the mapping from asset path to *)
(* logical id has one entry per changed Lambda function and holds the       *)
(* logical id of every one of them.                                         *)
C25_OneEntryPerChangedFunction ==
    (/\ Classified
     /\ \A i \in 1..Len(TemplateDifferences) : CodeLocationChange(TemplateDifferences[i])
     /\ ~ skipDeployResult.threw
     /\ skipDeployResult.lambdaOnly = "true")
        => /\ Len(skipDeployResult.modifiedAssetPaths) = Cardinality(ChangedFunctions)
           /\ ChangedFunctions \subseteq MappedLogicalIds(skipDeployResult.modifiedAssetPaths)


-----------------------------------------------------------------------------
(* deployStack: what the caller sees.                                       *)

(* C29: when deployStack fails on a declared parameter that has neither a   *)
(* supplied nor a previous value, no mutating remote call was issued in     *)
(* that invocation.                                                         *)
C29_MissingParameterFailsBeforeMutation ==
    (op = "deploy" /\ pc = "failed" /\ result.error = "missing parameter value")
        => CallNames \cap MutatingCalls = {}

(* The result of a call that found nothing to do (deployStack, lines        *)
(* 229-236).                                                                *)
NothingToDoResult == ResultFromSnapshot("true").result

(* The fast path was requested, changes were detected and the plan was      *)
(* found not eligible.                                                      *)
FoundNotEligible ==
    /\ op = "deploy" /\ Decided
    /\ skipDeployResult.hasChanges
    /\ options.shortcut
    /\ ~ Truthy(skipDeployResult.lambdaOnly)

(* C30: a call in which changes were detected and nothing was deployed, the *)
(* fast path being requested and found not eligible, does not return the    *)
(* result of a call in which there was nothing to do.                       *)
C30_NotEligibleDistinctFromNothingToDo ==
    (FoundNotEligible /\ pc = "done") => result # NothingToDoResult


-----------------------------------------------------------------------------
(* deployStack with --shortcut.                                             *)

(* canSkipDeploy compared the templates and ran the classification, whether *)
(* it returned or threw.                                                    *)
ClassificationRan ==
    /\ op = "deploy" /\ options.shortcut /\ ~ options.force
    /\ skipDeployResult # NoSkipDeployResult
    /\ cloudFormationStack.exists
    /\ JSONstringify(options.stack.template) # JSONstringify(cfnStackTemplate)

(* A difference that is neither a change of the code location of a function *)
(* alone nor a difference on the metadata resource.                         *)
NotCodeOnly(change) ==
    /\ ~ CodeLocationChange(change)
    /\ ~ MetadataResourceChange(change)

DeploymentCalls == {"publishAssets", "updateFunctionCode", "createChangeSet",
                    "executeChangeSet", "deleteChangeSet", "updateTerminationProtection"}

(* C26: when the fast path is requested and the template diff holds a       *)
(* change that is not code-only, deployStack issues no asset publish, no    *)
(* function-code update, no change-set call and no termination-protection   *)
(* update, and returns without throwing.                                    *)
C26_NotEligibleDeploysNothing ==
    (/\ ClassificationRan
     /\ \E i \in 1..Len(TemplateDifferences) : NotCodeOnly(TemplateDifferences[i]))
        => /\ CallNames \cap DeploymentCalls = {}
           /\ pc = "done"
           /\ result.kind = "returned"

(* The fast path is eligible: changes, all of them classified code-only.    *)
EligibleFastPath ==
    /\ op = "deploy" /\ Decided
    /\ options.shortcut
    /\ skipDeployResult.hasChanges
    /\ skipDeployResult.lambdaOnly = "true"

(* The calls of the fast path, each as << name, argument >>.                *)
RECURSIVE NamesAndArgs(_)
NamesAndArgs(cs) ==
    IF cs = << >> THEN << >>
    ELSE IF Head(cs).name \in MutatingCalls \cup {"describeStackResources"}
         THEN << << Head(cs).name, Head(cs).arg >> >> \o NamesAndArgs(Tail(cs))
         ELSE NamesAndArgs(Tail(cs))

(* One lookup of the physical name and one code update per mapping entry,   *)
(* in the order of the mapping.                                             *)
RECURSIVE UpdatesOf(_)
UpdatesOf(modifiedAssetPaths) ==
    IF modifiedAssetPaths = << >> THEN << >>
    ELSE << << "describeStackResources", Head(modifiedAssetPaths).logicalId >>,
            << "updateFunctionCode", Head(modifiedAssetPaths).logicalId >> >>
         \o UpdatesOf(Tail(modifiedAssetPaths))

ExpectedFastPathCalls ==
    << << "publishAssets", FilterIds(skipDeployResult.modifiedAssetPaths) >> >>
        \o UpdatesOf(skipDeployResult.modifiedAssetPaths)

IsPrefix(a, b) == Len(a) <= Len(b) /\ a = SubSeq(b, 1, Len(a))

(* C27: on the eligible fast path deployStack issues no change-set call and *)
(* no termination-protection update; its calls are the publish of the       *)
(* assets selected by the filter of the modified asset paths, then one code *)
(* update per mapping entry, one after the other in the order of the        *)
(* mapping; and when it returns, all of them were issued and noOp=false.    *)
C27_FastPathUpdatesEachMappedFunction ==
    EligibleFastPath
        => /\ CallNames \cap {"createChangeSet", "executeChangeSet", "deleteChangeSet",
                              "updateTerminationProtection"} = {}
           /\ IsPrefix(NamesAndArgs(calls), ExpectedFastPathCalls)
           /\ pc = "done" => /\ NamesAndArgs(calls) = ExpectedFastPathCalls
                             /\ result.kind = "returned"
                             /\ result.noOp = "false"
           /\ pc \in {"done", "failed", "publishChangedAssets", "getFunctionName",
                      "describeStackResources", "shortcutLambdaFunction",
                      "updateFunctionCode"}

C27_Witness ==
    /\ EligibleFastPath /\ pc = "done"
    /\ Len(skipDeployResult.modifiedAssetPaths) = 2
    /\ NamesAndArgs(calls) =
         << << "publishAssets", "filter:a1,a2" >>,
            << "describeStackResources", "Fn1" >>, << "updateFunctionCode", "Fn1" >>,
            << "describeStackResources", "Fn2" >>, << "updateFunctionCode", "Fn2" >> >>
    /\ result.noOp = "false"

(* The resolved parameters, or the rendered properties of the mapped        *)
(* resource, yield both an S3 bucket and an S3 key.                         *)
YieldsBucketAndKey(entry) ==
    LET resource == ResourceOf(options.stack.template, entry.logicalId)
        scanned == ScanParameters([s3Bucket |-> "", s3Key |-> ""], stackParams.values,
                                  entry.assetPath)
    IN  \/ scanned.s3Bucket # "" /\ scanned.s3Key # ""
        \/ /\ resource.Type = "AWS::Lambda::Function"
           /\ resource.Code \in {"bucket1/key1", "bucket1/key2", "sub/key2"}

(* C28: on the fast path updateFunctionCode is never called with an empty   *)
(* or unresolved bucket or key, and the fast path does not return when the  *)
(* code location of a mapping entry could not be resolved.                  *)
C28_UnresolvedCodeLocationIsFatal ==
    EligibleFastPath
        => /\ \A i \in 1..Len(calls) :
                calls[i].name = "updateFunctionCode"
                    => calls[i].s3Bucket # "" /\ calls[i].s3Key # ""
           /\ pc = "done"
                => \A i \in 1..Len(skipDeployResult.modifiedAssetPaths) :
                        YieldsBucketAndKey(skipDeployResult.modifiedAssetPaths[i])


-----------------------------------------------------------------------------
(* Several deployStack attempts side by side, reduced to the steps that     *)
(* name the change-set: each attempt draws its execution id (line 346),     *)
(* may fail before the change-set (lines 347-349), and creates its          *)
(* change-set under the name of line 351. The attempts interleave freely,   *)
(* so one may run after another has finished or in the middle of it.        *)

MaxAttempts == 2      \* attempts running against the account

Attempt == 1..MaxAttempts

(* The tokens uuid.v4() may return.                                         *)
AttemptTokens == ExecutionIds \cup {"uuid3", "uuid4"}

(* uuid.v4(): a token no attempt has drawn.                                 *)
uuidv4(drawn) == AttemptTokens \ drawn

NewAttempt(name) ==
    [pc |-> "uuid", deployName |-> name, executionId |-> "none",
     ChangeSetName |-> "none"]

AttemptsInit ==
    /\ op = "attempts"
    /\ pc = "attempts"
    /\ attempts \in [Attempt -> { NewAttempt(name) : name \in StackIds }]
    /\ options = Options(FALSE, FALSE, "undefined", FALSE, << >>, "undefined", FALSE, FALSE,
                         StackArtifact(DesiredTemplate, "undefined",
                                       LARGE_TEMPLATE_SIZE_KB * 1024, NoText))
    /\ cloudFormationStack = NoStack
    /\ lookedUp = NoStack
    /\ cfnStackTemplate = NoTemplate
    /\ stackParams = NoStackParams
    /\ skipDeployResult = NoSkipDeployResult
    /\ changeSet = NoChangeSet
    /\ bodyParameter = NoBodyParameter
    /\ executionId = "none"
    /\ stage = NoStage
    /\ completion = NoResult
    /\ digest = NoDigests
    /\ assetIndex = 1
    /\ calls = << >>
    /\ monitor = [started |-> 0, stopped |-> 0]
    /\ result = NoResult

DrawnIds == { attempts[a].executionId : a \in Attempt } \ {"none"}

AttemptFrame ==
    UNCHANGED << op, digest, pc, options, cloudFormationStack, lookedUp, cfnStackTemplate,
                 stackParams, skipDeployResult, changeSet, bodyParameter, executionId,
                 stage, assetIndex, calls, monitor, completion, result >>

(* deployStack, line 346.                                                   *)
DrawExecutionId(a) ==
    /\ op = "attempts" /\ attempts[a].pc = "uuid"
    /\ \E id \in uuidv4(DrawnIds) :
          attempts' = [attempts EXCEPT ![a].executionId = id, ![a].pc = "createChangeSet"]
    /\ AttemptFrame

(* deployStack, lines 347-349: makeBodyParameter or publishAssets threw.    *)
FailBeforeChangeSet(a) ==
    /\ op = "attempts" /\ attempts[a].pc = "createChangeSet"
    /\ attempts' = [attempts EXCEPT ![a].pc = "failed"]
    /\ AttemptFrame

(* deployStack, lines 351-368.                                              *)
AttemptCreateChangeSet(a) ==
    /\ op = "attempts" /\ attempts[a].pc = "createChangeSet"
    /\ attempts' = [attempts EXCEPT ![a].ChangeSetName = changeSetName(attempts[a].executionId),
                                    ![a].pc = "created"]
    /\ AttemptFrame

AttemptsNext ==
    \E a \in Attempt :
        \/ DrawExecutionId(a)
        \/ FailBeforeChangeSet(a)
        \/ AttemptCreateChangeSet(a)

AttemptsSpec == AttemptsInit /\ [][AttemptsNext]_vars

(* C21: any two deployStack attempts that reached createChangeSet, whether  *)
(* one ran after the other or both at once, and whether for the same stack  *)
(* or not, used different change-set names.                                 *)
C21_ChangeSetNamesAreUnique ==
    \A a, b \in Attempt :
        (/\ a # b
         /\ attempts[a].pc = "created"
         /\ attempts[b].pc = "created")
            => attempts[a].ChangeSetName # attempts[b].ChangeSetName

C21_Witness ==
    /\ op = "attempts"
    /\ attempts[1].pc = "created" /\ attempts[2].pc = "created"
    /\ attempts[1].deployName = attempts[2].deployName
    /\ attempts[1].ChangeSetName = "CDK-uuid2"
    /\ attempts[2].ChangeSetName = "CDK-uuid1"


-----------------------------------------------------------------------------
(* The full path of deployStack: order of the calls and what is returned.   *)

(* The positions in calls of the calls of a given name.                     *)
PositionsOf(name) == { i \in 1..Len(calls) : calls[i].name = name }

(* Every call named later has a call named earlier somewhere before it.     *)
Precedes(earlier, later) ==
    \A j \in PositionsOf(later) : \E i \in PositionsOf(earlier) : i < j

(* C32: in one deployStack invocation createChangeSet comes before the wait *)
(* for the change-set, that wait before deleteChangeSet and before          *)
(* executeChangeSet, and executeChangeSet before the wait for the stack;    *)
(* executeChangeSet is issued only once the change-set has finished         *)
(* computing; at most one of deleteChangeSet and executeChangeSet is        *)
(* issued, and each call of the sequence at most once.                      *)
C32_ChangeSetCallsInOrder ==
    op = "deploy"
        => /\ Precedes("createChangeSet", "waitForChangeSet")
           /\ Precedes("waitForChangeSet", "deleteChangeSet")
           /\ Precedes("waitForChangeSet", "executeChangeSet")
           /\ Precedes("executeChangeSet", "waitForStackDeploy")
           /\ "executeChangeSet" \in CallNames => changeSet.changes >= 0
           /\ ~ ("deleteChangeSet" \in CallNames /\ "executeChangeSet" \in CallNames)
           /\ \A name \in {"createChangeSet", "waitForChangeSet", "deleteChangeSet",
                           "executeChangeSet", "waitForStackDeploy"} :
                  Cardinality(PositionsOf(name)) <= 1

C32_Witness ==
    /\ op = "deploy" /\ pc = "done"
    /\ \E i \in 1..Len(calls) :
          /\ i + 3 <= Len(calls)
          /\ calls[i].name = "createChangeSet"
          /\ calls[i + 1].name = "waitForChangeSet"
          /\ calls[i + 2].name = "executeChangeSet"
          /\ calls[i + 3].name = "waitForStackDeploy"

(* C34: after a change-set was executed, the outputs deployStack returns   *)
(* are those of the stack the wait for the terminal status answered, which *)
(* is the snapshot deployStack holds from then on.                          *)
C34_OutputsFetchedAfterExecution ==
    (op = "deploy" /\ pc = "done" /\ "executeChangeSet" \in CallNames)
        => /\ calls[Len(calls)].name = "waitForStackDeploy"
           /\ calls[Len(calls)].arg = cloudFormationStack.stackStatus
           /\ cloudFormationStack \in FinalStacks
           /\ result.outputs = cloudFormationStack.outputs

C34_Witness ==
    /\ op = "deploy" /\ pc = "done" /\ "executeChangeSet" \in CallNames
    /\ lookedUp.exists /\ lookedUp.outputs = "out1"
    /\ result.outputs = "out2"

(* The remote stack did not exist when the skip decision was taken: it was  *)
(* never created, or the failed-creation cleanup removed it.                *)
MissingAtDecision ==
    \/ ~ lookedUp.exists
    \/ isCreationFailure(lookedUp.stackStatus)

(* C37: when the remote stack does not exist at the time of the skip        *)
(* decision, every deployStack call that returns has created a change-set   *)
(* of type CREATE, whatever force and the fast-path request are.            *)
C37_MissingStackIsCreated ==
    (op = "deploy" /\ result.kind = "returned" /\ MissingAtDecision)
        => /\ pc = "done"
           /\ \E i \in 1..Len(calls) :
                 calls[i].name = "createChangeSet" /\ calls[i].arg = "CREATE"

(* A stack removed by the cleanup and then created by a forced deployment.  *)
C37_Witness ==
    /\ op = "deploy" /\ MissingAtDecision /\ isCreationFailure(lookedUp.stackStatus)
    /\ options.force
    /\ pc = "done" /\ result.kind = "returned" /\ result.noOp = "false"
    /\ \E i \in 1..Len(calls) :
          calls[i].name = "createChangeSet" /\ calls[i].arg = "CREATE"

(* The calls that change the configuration or the resources of the stack.   *)
StackChangingCalls == {"deleteStack", "updateTerminationProtection", "executeChangeSet",
                       "updateFunctionCode"}

(* C38: whenever deployStack returns noOp=true, it has issued no call that  *)
(* changes the configuration or the resources of the stack.                 *)
C38_NoOpMeansNothingChanged ==
    (op = "deploy" /\ pc = "done" /\ result.noOp = "true")
        => CallNames \cap StackChangingCalls = {}


-----------------------------------------------------------------------------
(* publishAssets (asset-publishing) as deployStack calls it on the full     *)
(* path, lines 349-355: the environment test, the publish of every asset of *)
(* the manifest, the failure test, then createChangeSet.                    *)

MaxAssets == 2        \* most assets in a manifest

UNKNOWN_ACCOUNT == "unknown-account"
UNKNOWN_REGION == "unknown-region"

Accounts == {"undefined", UNKNOWN_ACCOUNT, "123456789012"}
Regions == {"undefined", UNKNOWN_REGION, "us-east-1"}

(* The assets of a manifest: file assets and, once makeBodyParameter added  *)
(* it, the oversized template; each with what its upload will come to.      *)
AssetIds == {"a1", "a2", "template"}
ManifestEntry == [id : AssetIds, fails : BOOLEAN]
Manifests ==
    { m \in SeqsUpTo(ManifestEntry, MaxAssets) :
        \A i, j \in 1..Len(m) : m[i].id = m[j].id => i = j }

PublishInit ==
    /\ op = "publish"
    /\ pc = "publishAssets"
    /\ options \in [targetEnv : [account : Accounts, region : Regions],
                    manifest : Manifests]
    /\ cloudFormationStack = NoStack
    /\ lookedUp = NoStack
    /\ cfnStackTemplate = NoTemplate
    /\ stackParams = NoStackParams
    /\ skipDeployResult = NoSkipDeployResult
    /\ changeSet = NoChangeSet
    /\ bodyParameter = NoBodyParameter
    /\ executionId = "none"
    /\ stage = NoStage
    /\ completion = NoResult
    /\ digest = NoDigests
    /\ attempts = NoAttempts
    /\ assetIndex = 1
    /\ calls = << >>
    /\ monitor = [started |-> 0, stopped |-> 0]
    /\ result = NoResult

PublishFrame ==
    UNCHANGED << completion, op, digest, options, cloudFormationStack, lookedUp, cfnStackTemplate, stackParams,
                 skipDeployResult, changeSet, bodyParameter, executionId, attempts,
                 stage, monitor >>

(* publishAssets, lines 13-14: the test of the target environment.          *)
notResolved(targetEnv) ==
    \/ targetEnv.account = "undefined"
    \/ targetEnv.account = UNKNOWN_ACCOUNT
    \/ targetEnv.region = "undefined"
    \/ targetEnv.account = UNKNOWN_REGION

(* publishAssets, lines 13-16.                                              *)
CheckEnvironment ==
    /\ op = "publish" /\ pc = "publishAssets"
    /\ IF notResolved(options.targetEnv)
       THEN Throw("Asset publishing requires resolved account and region")
       ELSE pc' = "publish" /\ UNCHANGED result
    /\ UNCHANGED << assetIndex, calls >>
    /\ PublishFrame

(* The publisher told to throw at the first failure.                        *)
throwOnErrorSet == TRUE

(* publishAssets, line 21: throwOnError: false                              *)
throwOnError == FALSE

(* publisher.publish(), one asset of the manifest.                          *)
PublishAsset ==
    /\ op = "publish" /\ pc = "publish"
    /\ assetIndex <= Len(options.manifest)
    /\ calls' = Issue("publishAsset", options.manifest[assetIndex].id)
    /\ IF options.manifest[assetIndex].fails /\ throwOnError
       THEN Throw("asset failed") /\ UNCHANGED assetIndex
       ELSE assetIndex' = assetIndex + 1 /\ UNCHANGED << pc, result >>
    /\ PublishFrame

(* publisher.hasFailures                                                    *)
hasFailures ==
    \E i \in 1..Len(options.manifest) : i < assetIndex /\ options.manifest[i].fails

(* publishAssets, lines 24-26, and the return to deployStack.               *)
AfterPublish ==
    /\ op = "publish" /\ pc = "publish"
    /\ assetIndex > Len(options.manifest)
    /\ IF hasFailures
       THEN Throw("Failed to publish one or more assets")
       ELSE pc' = "createChangeSet" /\ UNCHANGED result
    /\ UNCHANGED << assetIndex, calls >>
    /\ PublishFrame

(* deployStack, line 355.                                                   *)
CreateChangeSetAfterPublish ==
    /\ op = "publish" /\ pc = "createChangeSet"
    /\ calls' = Issue("createChangeSet", "")
    /\ pc' = "waitForChangeSet"
    /\ UNCHANGED << assetIndex, result >>
    /\ PublishFrame

PublishNext ==
    \/ CheckEnvironment
    \/ PublishAsset
    \/ AfterPublish
    \/ CreateChangeSetAfterPublish

PublishSpec == PublishInit /\ [][PublishNext]_vars

(* The ids of the assets whose publish was attempted, in order.             *)
RECURSIVE AttemptedIds(_)
AttemptedIds(cs) ==
    IF cs = << >> THEN << >>
    ELSE IF Head(cs).name = "publishAsset"
         THEN << Head(cs).arg >> \o AttemptedIds(Tail(cs))
         ELSE AttemptedIds(Tail(cs))

ManifestIds == [i \in 1..Len(options.manifest) |-> options.manifest[i].id]

SomeAssetFails == \E i \in 1..Len(options.manifest) : options.manifest[i].fails

(* C33: on the full path the publish of every asset of the manifest, the    *)
(* oversized template included, is attempted before createChangeSet; a      *)
(* failing asset does not stop the publish of the following ones, and when  *)
(* any asset failed publishAssets throws after the last one and no          *)
(* change-set is created.                                                   *)
C33_AssetsPublishedBeforeChangeSet ==
    op = "publish"
        => /\ "createChangeSet" \in CallNames
                => /\ AttemptedIds(calls) = ManifestIds
                   /\ ~ SomeAssetFails
                   /\ calls[Len(calls)].name = "createChangeSet"
           /\ (pc = "failed" /\ "publishAsset" \in CallNames)
                => /\ AttemptedIds(calls) = ManifestIds
                   /\ SomeAssetFails
                   /\ result.error = "Failed to publish one or more assets"
           /\ SomeAssetFails => "createChangeSet" \notin CallNames

C33_Witness ==
    /\ op = "publish" /\ pc = "failed"
    /\ Len(options.manifest) = 2
    /\ options.manifest[1].fails /\ ~ options.manifest[2].fails
    /\ options.manifest[2].id = "template"
    /\ AttemptedIds(calls) = ManifestIds
    /\ result.error = "Failed to publish one or more assets"

(* The account is undefined or the unknown-account sentinel, or the region  *)
(* is undefined or the unknown-region sentinel.                             *)
NotFullyResolved(targetEnv) ==
    \/ targetEnv.account \in {"undefined", UNKNOWN_ACCOUNT}
    \/ targetEnv.region \in {"undefined", UNKNOWN_REGION}

(* C35: whenever the target environment is not fully resolved,              *)
(* publishAssets throws before publishing anything.                         *)
C35_UnresolvedEnvironmentIsFatal ==
    (op = "publish" /\ pc # "publishAssets" /\ NotFullyResolved(options.targetEnv))
        => /\ pc = "failed"
           /\ result.error = "Asset publishing requires resolved account and region"
           /\ "publishAsset" \notin CallNames


-----------------------------------------------------------------------------
(* Stage of aws-codepipeline (lib/stage.ts): the constructor, addAction and *)
(* the attachment of the stage to a pipeline.                               *)

MaxActions == 2       \* most actions in props.actions

ActionNames == {"Source", "Build", "Deploy"}

(* Action objects: two different objects may carry the same actionName.     *)
Action == [actionName : ActionNames, object : {"x", "y"}]

NoAction == [actionName |-> "none", object |-> "none"]

(* No call of addAction yet.                                                *)
NoCall == [action |-> NoAction, threw |-> FALSE, actionsBefore |-> << >>,
           attachedBefore |-> << >>]

(* this._actions.find(a => a.actionName === action.actionName)              *)
find(actions, actionName) ==
    \E i \in 1..Len(actions) : actions[i].actionName = actionName

(* addAction without the test for an action of the same name.               *)
addActionUnchecked(st, action) ==
    [st EXCEPT !._actions = Append(st._actions, action),
               !.attached = IF st.pipeline # "undefined"
                            THEN Append(st.attached, action) ELSE st.attached,
               !.last = [action |-> action, threw |-> FALSE,
                         actionsBefore |-> st._actions, attachedBefore |-> st.attached]]

(* Stage.addAction, lines 98-110.  last keeps what the latest call was       *)
(* given and found.                                                         *)
addAction(st, action) ==
    IF find(st._actions, action.actionName)
    THEN [st EXCEPT !.last = [action |-> action, threw |-> TRUE,
                              actionsBefore |-> st._actions,
                              attachedBefore |-> st.attached]]
    ELSE [st EXCEPT !._actions = Append(st._actions, action),
                    !.attached = IF st.pipeline # "undefined"
                                 THEN Append(st.attached, action) ELSE st.attached,
                    !.last = [action |-> action, threw |-> FALSE,
                              actionsBefore |-> st._actions,
                              attachedBefore |-> st.attached]]

(* new Stage(stageName, props), before the loop over props.actions.         *)
StageInit ==
    /\ op = "stage"
    /\ pc = "constructor"
    /\ stage \in { [_actions |-> << >>, pipeline |-> "undefined", attached |-> << >>,
                    propsActions |-> actions, last |-> NoCall] :
                     actions \in SeqsUpTo(Action, MaxActions) }
    /\ completion = NoResult
    /\ digest = NoDigests
    /\ options = Options(FALSE, FALSE, "undefined", FALSE, << >>, "undefined", FALSE, FALSE,
                         StackArtifact(DesiredTemplate, "undefined",
                                       LARGE_TEMPLATE_SIZE_KB * 1024, NoText))
    /\ cloudFormationStack = NoStack
    /\ lookedUp = NoStack
    /\ cfnStackTemplate = NoTemplate
    /\ stackParams = NoStackParams
    /\ skipDeployResult = NoSkipDeployResult
    /\ changeSet = NoChangeSet
    /\ bodyParameter = NoBodyParameter
    /\ executionId = "none"
    /\ attempts = NoAttempts
    /\ assetIndex = 1
    /\ calls = << >>
    /\ monitor = [started |-> 0, stopped |-> 0]
    /\ result = NoResult

StageFrame ==
    UNCHANGED << completion, op, digest, options, cloudFormationStack, lookedUp, cfnStackTemplate, stackParams,
                 skipDeployResult, changeSet, bodyParameter, executionId, attempts,
                 assetIndex, calls, monitor, result >>

(* Stage.constructor, lines 75-77: one turn of the loop, or its end.  A     *)
(* throw of addAction leaves the constructor: no stage is built.            *)
ConstructorAddAction ==
    /\ op = "stage" /\ pc = "constructor"
    /\ IF stage.propsActions = << >>
       THEN pc' = "constructed" /\ UNCHANGED stage
       ELSE LET added == addAction(stage, Head(stage.propsActions)) IN
            /\ stage' = [added EXCEPT !.propsActions = Tail(stage.propsActions)]
            /\ pc' = IF added.last.threw THEN "failed" ELSE "constructor"
    /\ StageFrame

(* stage.addAction(action) called on the constructed stage.                 *)
AddAction ==
    /\ op = "stage" /\ pc = "constructed"
    /\ \E action \in Action : stage' = addAction(stage, action)
    /\ UNCHANGED pc
    /\ StageFrame

(* Stage._attachStageToPipeline, lines 127-136, on a stage not attached.    *)
AttachStageToPipeline ==
    /\ op = "stage" /\ pc = "constructed"
    /\ stage.pipeline = "undefined"
    /\ stage' = [stage EXCEPT !.pipeline = "Pipeline", !.attached = stage._actions,
                              !.last = NoCall]
    /\ UNCHANGED pc
    /\ StageFrame

StageNext ==
    \/ ConstructorAddAction
    \/ AddAction
    \/ AttachStageToPipeline

StageSpec == StageInit /\ [][StageNext]_vars

(* C36: no two actions of a stage share an actionName; an addAction with a  *)
(* name already present throws, leaves the list of actions unchanged and    *)
(* attaches nothing to the pipeline; any other addAction appends the action. *)
C36_ActionNamesAreUnique ==
    op = "stage"
        => /\ \A i, j \in 1..Len(stage._actions) :
                  stage._actions[i].actionName = stage._actions[j].actionName => i = j
           /\ stage.last # NoCall
                => IF find(stage.last.actionsBefore, stage.last.action.actionName)
                   THEN /\ stage.last.threw
                        /\ stage._actions = stage.last.actionsBefore
                        /\ stage.attached = stage.last.attachedBefore
                   ELSE /\ ~ stage.last.threw
                        /\ \E i \in 1..Len(stage._actions) :
                              stage._actions[i] = stage.last.action

C36_Witness ==
    /\ op = "stage" /\ pc = "constructed"
    /\ stage.pipeline = "Pipeline"
    /\ Len(stage._actions) = 2
    /\ stage.last.threw
    /\ stage.last.action.actionName = stage._actions[1].actionName
    /\ stage.last.action # stage._actions[1]
    /\ stage.attached = stage._actions


-----------------------------------------------------------------------------
(* The fast path and what lies outside the Resources section.               *)

(* C39: whenever the skip decision reports lambdaOnly=true the mapping of   *)
(* the modified assets is not empty, and a template that differs from the   *)
(* remote one only outside its Resources section is not reported            *)
(* lambdaOnly=true.                                                         *)
C39_EligibleMeansSomethingToUpdate ==
    (op = "skip" /\ pc = "applied" /\ ~ skipDeployResult.threw)
        => /\ skipDeployResult.lambdaOnly = "true"
                => skipDeployResult.modifiedAssetPaths # << >>
           /\ (/\ options.stack.template.Resources = cfnStackTemplate.Resources
               /\ options.stack.template.Outputs # cfnStackTemplate.Outputs)
                => skipDeployResult.lambdaOnly # "true"

-----------------------------------------------------------------------------
(* The stack the calls of one run address.                                  *)

(* The calls that name a stack.                                             *)
StackNamingCalls == { i \in 1..Len(calls) : calls[i].StackName # "" }

(* C40: every remote call of one run names the same stack, the supplied     *)
(* deployName or, when none is supplied, the artifact's stack name.         *)
C40_OneStackNamePerRun ==
    op = "deploy" => \A i \in StackNamingCalls : calls[i].StackName = deployName

-----------------------------------------------------------------------------
(* The fast path against the full path it replaces.                         *)

(* The template the stack holds after the run: CloudFormation replaces it   *)
(* when a change-set is executed, and no other call of deployStack does.    *)
RemoteTemplateAfterRun ==
    IF \E i \in 1..Len(calls) : calls[i].name = "executeChangeSet"
    THEN options.stack.template
    ELSE cfnStackTemplate

(* The skip decision of a following deployStack for the same desired stack, *)
(* the fast path not requested.                                             *)
FollowingSkipDecision ==
    canSkipDeploy([options EXCEPT !.shortcut = FALSE], cloudFormationStack,
                  RemoteTemplateAfterRun, stackParams.hasChanges, FALSE)

(* The code location the desired template gives the function, which a      *)
(* full-path deployment installs: the bucket and key of its properties, a   *)
(* bucket that refers to a stack parameter being the value of the           *)
(* parameter.                                                               *)
DesiredCodeLocation(logicalId) ==
    LET r == ResourceOf(options.stack.template, logicalId)
    IN  IF r.Code = "ref/key2"
        THEN ScanParameters([s3Bucket |-> "", s3Key |-> ""], stackParams.values,
                            r.Metadata)
        ELSE [s3Bucket |-> S3BucketOf(r.Code, resolvedEnvironment).s3Bucket,
              s3Key |-> S3KeyOf(r.Code)]

(* The function was given the code location of the desired template.        *)
RunsDesiredCode(logicalId) ==
    LET location == DesiredCodeLocation(logicalId)
    IN  \E i \in 1..Len(calls) :
            /\ calls[i].name = "updateFunctionCode"
            /\ calls[i].arg = logicalId
            /\ calls[i].s3Bucket = location.s3Bucket
            /\ calls[i].s3Key = location.s3Key

(* C31: after a successful fast-path deployStack every changed function     *)
(* runs the code of the desired template, and a following deployStack for   *)
(* the same desired stack without the fast path decides hasChanges=false,   *)
(* as it would after a full-path deployment.                                *)
C31_FastPathEquivalentToFullPath ==
    (/\ EligibleFastPath
     /\ pc = "done"
     /\ result.kind = "returned"
     /\ result.noOp = "false")
        => /\ \A logicalId \in ChangedFunctions : RunsDesiredCode(logicalId)
           /\ ~ FollowingSkipDecision.threw
           /\ ~ FollowingSkipDecision.hasChanges

====
